---- MODULE Spec2Model ----
(***************************************************************************)
(* The version record of launchfirestorm/bump and its bump state machine.  *)
(*                                                                         *)
(* State: the version document on disk (`doc`), the record in memory       *)
(* (`version`), how far the invocation that holds it has got (`pc`), the   *)
(* wall clock (`now`), and the argument, starting record, clock reading    *)
(* and result of the call of Version::bump that has just returned, what    *)
(* the last reading, rendering or tagging call gave back (`returned`),     *)
(* the tags of the repository (`tags`), and what a sequence of bumps has   *)
(* been through (`trail`).  The                                            *)
(* operators from_file, to_file, to_string, bump and get_time are          *)
(* translated from src/src/version.rs.                                     *)
(*                                                                         *)
(* Option<T> is a sequence of length at most one: None is <<>>, Some(x) is *)
(* <<x>>.  A strftime pattern is the sequence of its items.  The u32       *)
(* counters are kept below MaxCount by the guards of the actions, far from *)
(* the 2^32 limit, so `+= 1` is plain addition here.                       *)
(***************************************************************************)
EXTENDS Integers, Sequences, FiniteSets, TLC

VARIABLES doc, version, pc, now, bumped, cand, cycle, returned, tags, trail

vars == <<doc, version, pc, now, bumped, cand, cycle, returned, tags, trail>>

\* ---------------------------------------------------------------- bounds

\* the numbers an initial document holds
InitNums == {0, 1}

\* the counters of a record stay at or below this value
MaxCount == 2

\* longest run of load-bump-save cycles that is followed
MaxCycles == 3

\* ----------------------------------------------------------- Option<T>

None == <<>>

Some(x) == <<x>>

\* --------------------------------------------------------------- clock

\* The instants chrono::Utc::now() returns, in the order the clock passes
\* them; from one to the next exactly one of day, month and year changes.
Days ==
  << [year |-> 2024, month |-> 1, day |-> 15, hour |-> 9, minute |-> 30, second |-> 0],
     [year |-> 2024, month |-> 1, day |-> 16, hour |-> 9, minute |-> 30, second |-> 0],
     [year |-> 2024, month |-> 2, day |-> 16, hour |-> 9, minute |-> 30, second |-> 0],
     [year |-> 2025, month |-> 2, day |-> 16, hour |-> 9, minute |-> 30, second |-> 0] >>

Pad2(n) == IF n < 10 THEN "0" \o ToString(n) ELSE ToString(n)

\* one strftime item applied to an instant
FormatItem(item, t) ==
  CASE item = "%Y" -> ToString(t.year)
    [] item = "%y" -> Pad2(t.year % 100)
    [] item = "%m" -> Pad2(t.month)
    [] item = "%d" -> Pad2(t.day)
    [] item = "%H" -> Pad2(t.hour)
    [] item = "%M" -> Pad2(t.minute)
    [] item = "%S" -> Pad2(t.second)
    [] item = "%Z" -> "UTC"
    [] OTHER -> item

RECURSIVE StrfTime(_, _)
\* now.format(fmt).to_string()
StrfTime(fmt, t) ==
  IF fmt = <<>> THEN ""
  ELSE FormatItem(Head(fmt), t) \o StrfTime(Tail(fmt), t)

\* get_time that renders an absent format as the empty timestamp
get_time_never_absent(format, t) ==
  IF format = None THEN Some("") ELSE Some(StrfTime(format[1], t))

\* get_time(format): the rendered timestamp, None without a format
get_time(format, t) ==
  IF format = None THEN None ELSE Some(StrfTime(format[1], t))

\* ------------------------------------------------------- configuration

\* SemVerConfig { format, version, candidate, development }
SemVerConfig(prefix, timestamp, major, minor, patch, candidate, promotion) ==
  [ format      |-> [prefix |-> prefix, delimiter |-> ".", timestamp |-> timestamp],
    version     |-> [major |-> major, minor |-> minor, patch |-> patch,
                     candidate |-> candidate],
    candidate   |-> [promotion |-> promotion, delimiter |-> "-rc"],
    development |-> [promotion |-> "git_sha", delimiter |-> "+"] ]

\* CalVerConfig { format, version, conflict }
CalVerConfig(fmonth, fday, fminor, year, month, day, vminor, resolution, suffix) ==
  [ format   |-> [prefix |-> "", delimiter |-> ".", year |-> <<"%Y">>,
                  month |-> fmonth, day |-> fday, minor |-> fminor,
                  micro |-> None],
    version  |-> [year |-> year, month |-> month, day |-> day,
                  minor |-> vminor, micro |-> None],
    conflict |-> [resolution |-> resolution, suffix |-> suffix,
                  delimiter |-> "-"] ]

\* "%Y-%m-%d %H:%M:%S %Z", the timestamp pattern of default_semver_config
DefaultTimestamp ==
  <<"%Y", "-", "%m", "-", "%d", " ", "%H", ":", "%M", ":", "%S", " ", "%Z">>

\* default_semver_config(prefix, major, minor, patch, candidate)
default_semver_config(prefix, major, minor, patch, candidate) ==
  [scheme |-> "SemVer",
   semver |-> SemVerConfig(prefix, Some(DefaultTimestamp), major, minor, patch,
                           candidate, "minor")]

\* the timestamp patterns of the documents: none, or the year
TimestampFormats == {None, Some(<<"built ", "%Y">>)}

\* candidate.promotion: the three policies and an unrecognised string
Promotions == {"major", "minor", "patch", "bogus"}

\* the timestamp pattern and promotion policy of a SemVer document: every
\* policy without a pattern, and the default policy with one
SemVerSettings ==
  { <<None, pr>> : pr \in Promotions }
    \cup { <<ts, "minor">> : ts \in TimestampFormats }

\* conflict.resolution: the two policies and an unrecognised string
Resolutions == {"suffix", "overwrite", "bogus"}

\* a document is its two optional scheme sections; everything else in the
\* file (comments, blank lines, other tables) is `rest`
SemVerDocs ==
  { [semver |-> Some(SemVerConfig("v", f[1], ma, mi, pa, ca, f[2])),
     calver |-> None, rest |-> "# comments"] :
      f \in SemVerSettings, ma \in InitNums, mi \in InitNums,
      pa \in InitNums, ca \in InitNums }

CalVerDocs ==
  { [semver |-> None,
     calver |-> Some(CalVerConfig(fm, fd, fn, StrfTime(<<"%Y">>, Days[i]),
                                  IF hm THEN Some(StrfTime(<<"%m">>, Days[i])) ELSE None,
                                  IF hd THEN Some(StrfTime(<<"%d">>, Days[i])) ELSE None,
                                  vn, rs, su)),
     rest |-> "# comments"] :
      fm \in {None, Some(<<"%m">>)}, fd \in {None, Some(<<"%d">>)},
      fn \in {None}, i \in 1..Len(Days), hm \in BOOLEAN,
      hd \in BOOLEAN, vn \in {None}, rs \in Resolutions,
      su \in InitNums }

\* the path of the version file
Path == "bump.toml"

\* no file exists at the path
NoFile == [exists |-> FALSE]

\* a file that toml::from_str does not parse
Malformed == [exists |-> TRUE, toml |-> FALSE]

\* documents that parse and that from_file rejects: both scheme sections,
\* and neither
SchemeErrorDocs ==
  { [semver |-> Some(SemVerConfig("v", None, 0, 1, 0, 0, "minor")),
     calver |-> Some(CalVerConfig(None, None, None, "2024", None, None, None,
                                  "suffix", 0)),
     rest |-> "# comments"],
    [semver |-> None, calver |-> None, rest |-> "# comments"] }

\* ------------------------------------------------------------- records

NoVersion == [loaded |-> FALSE]

IoError(kind, msg) == [ok |-> FALSE, err |-> "IoError", kind |-> kind, msg |-> msg]

ParseError(msg) == [ok |-> FALSE, err |-> "ParseError", msg |-> msg]

TomlError(msg) == [ok |-> FALSE, err |-> "TomlError", msg |-> msg]

Ok == [ok |-> TRUE]

\* scheme_sections with one message for both rejections
scheme_sections_one_message(has_semver, has_calver) ==
  IF has_semver /\ has_calver
    THEN ParseError("Must have either [semver] or [calver] section defined.")
  ELSE IF ~has_semver /\ ~has_calver
    THEN ParseError("Must have either [semver] or [calver] section defined.")
  ELSE Ok

\* the mutual exclusivity of the two scheme sections
scheme_sections(has_semver, has_calver) ==
  IF has_semver /\ has_calver
    THEN ParseError("Cannot have both [semver] and [calver] sections. Please comment out one.")
  ELSE IF ~has_semver /\ ~has_calver
    THEN ParseError("Must have either [semver] or [calver] section defined.")
  ELSE Ok

\* Version::from_file: the record, or the error
from_file(d, t) ==
  LET has_semver == d.semver # None
      has_calver == d.calver # None
  IN  IF d = NoFile
        THEN IoError("NotFound", Path)
      ELSE IF d = Malformed
        THEN TomlError("TOML parse error")
      ELSE IF ~scheme_sections(has_semver, has_calver).ok
        THEN scheme_sections(has_semver, has_calver)
      ELSE IF has_semver
        THEN LET semver_config == d.semver[1]
             IN  [ok |-> TRUE,
                  v  |-> [loaded |-> TRUE,
                          prefix |-> semver_config.format.prefix,
                          timestamp |-> get_time(semver_config.format.timestamp, t),
                          version_type |->
                            [scheme |-> "SemVer",
                             major |-> semver_config.version.major,
                             minor |-> semver_config.version.minor,
                             patch |-> semver_config.version.patch,
                             candidate |-> semver_config.version.candidate],
                          config |-> [scheme |-> "SemVer", semver |-> semver_config]]]
      ELSE LET calver_config == d.calver[1]
           IN  [ok |-> TRUE,
                v  |-> [loaded |-> TRUE,
                        prefix |-> calver_config.format.prefix,
                        timestamp |-> None,
                        version_type |->
                          [scheme |-> "CalVer",
                           suffix |-> calver_config.conflict.suffix],
                        config |-> [scheme |-> "CalVer", calver |-> calver_config]]]

\* SemVerRecord with the state variant of the CalVer initialisation
SemVerRecord_calver_state(prefix, config) ==
  [loaded |-> TRUE,
   prefix |-> prefix,
   timestamp |-> None,
   version_type |-> [scheme |-> "CalVer", suffix |-> 0],
   config |-> config]

\* a SemVer record made from a configuration, without a timestamp
SemVerRecord(prefix, config) ==
  [loaded |-> TRUE,
   prefix |-> prefix,
   timestamp |-> None,
   version_type |-> [scheme |-> "SemVer",
                     major |-> config.semver.version.major,
                     minor |-> config.semver.version.minor,
                     patch |-> config.semver.version.patch,
                     candidate |-> config.semver.version.candidate],
   config |-> config]

\* Version::default(path): v0.1.0
default ==
  LET config == default_semver_config("v", 0, 1, 0, 0)
  IN  SemVerRecord(config.semver.format.prefix, config)

\* [a-zA-Z]
Letters ==
  {"a", "b", "c", "d", "e", "f", "g", "h", "i", "j", "k", "l", "m", "n", "o",
   "p", "q", "r", "s", "t", "u", "v", "w", "x", "y", "z",
   "A", "B", "C", "D", "E", "F", "G", "H", "I", "J", "K", "L", "M", "N", "O",
   "P", "Q", "R", "S", "T", "U", "V", "W", "X", "Y", "Z"}

\* the decimal digits the version strings here are written with
Digits == {"0", "1", "2", "3", "4", "5", "6", "7", "8", "9"}

\* the character of s at position i, "" past its end
Char(s, i) == IF i <= Len(s) THEN SubSeq(s, i, i) ELSE ""

RECURSIVE SpanEnd(_, _, _)
\* the position after the longest run of characters of the class that
\* starts at position i of s (a greedy `class*`)
SpanEnd(s, i, class) ==
  IF Char(s, i) \in class THEN SpanEnd(s, i + 1, class) ELSE i

DigitValue(c) == CHOOSE n \in 0..9 : ToString(n) = c

RECURSIVE ParseDigits(_)
\* the number a run of digits denotes
ParseDigits(ds) ==
  IF ds = "" THEN 0
  ELSE 10 * ParseDigits(SubSeq(ds, 1, Len(ds) - 1)) + DigitValue(Char(ds, Len(ds)))

RECURSIVE StripZeros(_)
\* a run of digits without its leading zeros
StripZeros(ds) ==
  IF Len(ds) > 1 /\ Char(ds, 1) = "0"
    THEN StripZeros(SubSeq(ds, 2, Len(ds)))
    ELSE ds

RECURSIVE DigitsLeq(_, _)
\* a <= b for two runs of digits of one length
DigitsLeq(a, b) ==
  IF a = "" THEN TRUE
  ELSE IF DigitValue(Char(a, 1)) # DigitValue(Char(b, 1))
    THEN DigitValue(Char(a, 1)) < DigitValue(Char(b, 1))
  ELSE DigitsLeq(SubSeq(a, 2, Len(a)), SubSeq(b, 2, Len(b)))

\* the run of digits denotes a number up to u32::MAX
FitsU32(ds) ==
  LET t == StripZeros(ds)
  IN  Len(t) < 10 \/ (Len(t) = 10 /\ DigitsLeq(t, "4294967295"))

\* str::parse::<u32>() on a run of digits, with the error from_string
\* maps a failure to
ParseU32(ds, field) ==
  IF FitsU32(ds)
    THEN [ok |-> TRUE, n |-> ParseDigits(ds)]
    ELSE ParseError("invalid " \o field \o " value")

\* captures without the optional -rc group
captures_without_candidate(version_str) ==
  LET s  == version_str
      p  == SpanEnd(s, 1, Letters)
      a  == SpanEnd(s, p, Digits)
      b  == SpanEnd(s, a + 1, Digits)
      c  == SpanEnd(s, b + 1, Digits)
  IN  IF /\ a > p /\ Char(s, a) = "."
         /\ b > a + 1 /\ Char(s, b) = "."
         /\ c > b + 1
        THEN Some([prefix    |-> SubSeq(s, 1, p - 1),
                   major     |-> SubSeq(s, p, a - 1),
                   minor     |-> SubSeq(s, a + 1, b - 1),
                   patch     |-> SubSeq(s, b + 1, c - 1),
                   candidate |-> None])
        ELSE None

\* the captures of
\* ^([a-zA-Z]*)(\d+)\.(\d+)\.(\d+)(?:-rc(\d+))?  on version_str
captures(version_str) ==
  LET s  == version_str
      p  == SpanEnd(s, 1, Letters)
      a  == SpanEnd(s, p, Digits)
      b  == SpanEnd(s, a + 1, Digits)
      c  == SpanEnd(s, b + 1, Digits)
      e  == SpanEnd(s, c + 3, Digits)
      rc == /\ Char(s, c) = "-" /\ Char(s, c + 1) = "r" /\ Char(s, c + 2) = "c"
            /\ e > c + 3
  IN  IF /\ a > p /\ Char(s, a) = "."
         /\ b > a + 1 /\ Char(s, b) = "."
         /\ c > b + 1
        THEN Some([prefix    |-> SubSeq(s, 1, p - 1),
                   major     |-> SubSeq(s, p, a - 1),
                   minor     |-> SubSeq(s, a + 1, b - 1),
                   patch     |-> SubSeq(s, b + 1, c - 1),
                   candidate |-> IF rc THEN Some(SubSeq(s, c + 3, e - 1)) ELSE None])
        ELSE None

\* Version::from_string(version_str, path): the record, or the error
from_string(version_str) ==
  LET caps == captures(version_str)
  IN  IF caps = None THEN ParseError("invalid version format")
      ELSE
        LET prefix    == caps[1].prefix
            major     == ParseU32(caps[1].major, "MAJOR")
            minor     == ParseU32(caps[1].minor, "MINOR")
            patch     == ParseU32(caps[1].patch, "PATCH")
            candidate == IF caps[1].candidate = None THEN [ok |-> TRUE, n |-> 0]
                         ELSE ParseU32(caps[1].candidate[1], "CANDIDATE")
        IN  IF ~major.ok THEN major
            ELSE IF ~minor.ok THEN minor
            ELSE IF ~patch.ok THEN patch
            ELSE IF ~candidate.ok THEN candidate
            ELSE [ok |-> TRUE,
                  v  |-> SemVerRecord(prefix,
                           default_semver_config(prefix, major.n, minor.n,
                                                 patch.n, candidate.n))]

\* doc[section][key] = value(x) only when the record holds Some(x)
SetIfSome(opt, old) == IF opt # None THEN opt ELSE old

\* Version::to_file: the document after the write
to_file(v, d) ==
  IF v.version_type.scheme = "SemVer"
    THEN LET c   == v.config.semver
             old == IF d.semver # None THEN d.semver[1].format.timestamp ELSE None
         IN  [d EXCEPT !.semver = Some(
               [ format |-> [prefix |-> c.format.prefix,
                             delimiter |-> c.format.delimiter,
                             timestamp |-> SetIfSome(c.format.timestamp, old)],
                 version |-> [major |-> v.version_type.major,
                              minor |-> v.version_type.minor,
                              patch |-> v.version_type.patch,
                              candidate |-> v.version_type.candidate],
                 candidate |-> c.candidate,
                 development |-> c.development ])]
    ELSE LET c  == v.config.calver
             of == IF d.calver # None THEN d.calver[1].format
                   ELSE [month |-> None, day |-> None, minor |-> None, micro |-> None]
             ov == IF d.calver # None THEN d.calver[1].version
                   ELSE [month |-> None, day |-> None, minor |-> None, micro |-> None]
         IN  [d EXCEPT !.calver = Some(
               [ format |-> [prefix |-> c.format.prefix,
                             delimiter |-> c.format.delimiter,
                             year |-> c.format.year,
                             month |-> SetIfSome(c.format.month, of.month),
                             day |-> SetIfSome(c.format.day, of.day),
                             minor |-> SetIfSome(c.format.minor, of.minor),
                             micro |-> SetIfSome(c.format.micro, of.micro)],
                 version |-> [year |-> c.version.year,
                              month |-> SetIfSome(c.version.month, ov.month),
                              day |-> SetIfSome(c.version.day, ov.day),
                              minor |-> SetIfSome(c.version.minor, ov.minor),
                              micro |-> SetIfSome(c.version.micro, ov.micro)],
                 conflict |-> [suffix |-> v.version_type.suffix,
                               resolution |-> c.conflict.resolution,
                               delimiter |-> c.conflict.delimiter] ])]

\* ---------------------------------------------------------------- bump

LogicError(msg) == [ok |-> FALSE, err |-> "LogicError", msg |-> msg]

\* BumpType, with the Calendar kind that Version::bump matches on
BumpTypes ==
  { [kind |-> "Prefix", prefix |-> p] : p \in {"rel"} }
    \cup { [kind |-> "Point", point |-> pt] : pt \in {"Major", "Minor", "Patch"} }
    \cup { [kind |-> k] : k \in {"Candidate", "Release", "Calendar", "Base"} }

\* bump_point with a Patch arm that forgets `*candidate = 0`
bump_point_keeps_candidate(vt, point) ==
  CASE point = "Major" ->
         [vt EXCEPT !.major = @ + 1, !.minor = 0, !.patch = 0, !.candidate = 0]
    [] point = "Minor" ->
         [vt EXCEPT !.minor = @ + 1, !.patch = 0, !.candidate = 0]
    [] point = "Patch" ->
         [vt EXCEPT !.patch = @ + 1]

\* the arms BumpType::Point(Major | Minor | Patch)
bump_point(vt, point) ==
  CASE point = "Major" ->
         [vt EXCEPT !.major = @ + 1, !.minor = 0, !.patch = 0, !.candidate = 0]
    [] point = "Minor" ->
         [vt EXCEPT !.minor = @ + 1, !.patch = 0, !.candidate = 0]
    [] point = "Patch" ->
         [vt EXCEPT !.patch = @ + 1, !.candidate = 0]

\* promote whose patch policy starts the candidate on the patch as it is
promote_patch_keeps_patch(vt, promotion) ==
  CASE promotion = "major" ->
         [vt EXCEPT !.major = @ + 1, !.minor = 0, !.patch = 0]
    [] promotion = "minor" ->
         [vt EXCEPT !.minor = @ + 1, !.patch = 0]
    [] promotion = "patch" ->
         vt
    [] OTHER ->
         [vt EXCEPT !.minor = @ + 1, !.patch = 0]

\* promote with an unrecognised strategy falling back to patch
promote_falls_to_patch(vt, promotion) ==
  CASE promotion = "major" ->
         [vt EXCEPT !.major = @ + 1, !.minor = 0, !.patch = 0]
    [] promotion = "minor" ->
         [vt EXCEPT !.minor = @ + 1, !.patch = 0]
    [] OTHER ->
         [vt EXCEPT !.patch = @ + 1]

\* the promotion strategy applied when a candidate line starts
promote(vt, promotion) ==
  CASE promotion = "major" ->
         [vt EXCEPT !.major = @ + 1, !.minor = 0, !.patch = 0]
    [] promotion = "minor" ->
         [vt EXCEPT !.minor = @ + 1, !.patch = 0]
    [] promotion = "patch" ->
         [vt EXCEPT !.patch = @ + 1]
    [] OTHER ->
         [vt EXCEPT !.minor = @ + 1, !.patch = 0]

\* bump_candidate whose next candidate starts the patch again
bump_candidate_restarts_patch(vt, promotion) ==
  IF vt.candidate > 0
    THEN [vt EXCEPT !.candidate = @ + 1, !.patch = 0]
    ELSE [promote(vt, promotion) EXCEPT !.candidate = 1]

\* bump_candidate without the `if *candidate > 0` test: every candidate
\* promotes again
bump_candidate_always_promotes(vt, promotion) ==
  [vt EXCEPT !.minor = @ + 1, !.patch = 0, !.candidate = @ + 1]

\* the arm BumpType::Candidate
bump_candidate(vt, promotion) ==
  IF vt.candidate > 0
    THEN [vt EXCEPT !.candidate = @ + 1]
    ELSE [promote(vt, promotion) EXCEPT !.candidate = 1]

\* bump_release that leaves the candidate number in place
bump_release_keeps_candidate(vt) ==
  IF vt.candidate = 0
    THEN [res |-> LogicError("Cannot release without a candidate"), vt |-> vt]
    ELSE [res |-> Ok, vt |-> vt]

\* bump_release without the `*candidate == 0` test
bump_release_unchecked(vt) ==
  [res |-> Ok, vt |-> [vt EXCEPT !.candidate = 0]]

\* bump_release that also starts the patch count again
bump_release_zeroes_patch(vt) ==
  IF vt.candidate = 0
    THEN [res |-> LogicError("Cannot release without a candidate"), vt |-> vt]
    ELSE [res |-> Ok, vt |-> [vt EXCEPT !.patch = 0, !.candidate = 0]]

\* the arm BumpType::Release
bump_release(vt) ==
  IF vt.candidate = 0
    THEN [res |-> LogicError("Cannot release without a candidate"), vt |-> vt]
    ELSE [res |-> Ok, vt |-> [vt EXCEPT !.candidate = 0]]

\* the arm BumpType::Prefix writing the configured prefix, not the record's
bump_prefix_sets_configured(v, prefix) ==
  [v EXCEPT !.config.semver.format.prefix = prefix]

\* the arm BumpType::Prefix: self.prefix = prefix.clone()
bump_prefix(v, prefix) ==
  [v EXCEPT !.prefix = prefix]

\* the SemVer half of Version::bump; the timestamp is set before the kind
\* is looked at, so it is set on the error returns too
bump_semver(v, bump_type, t) ==
  LET semver_config == v.config.semver
      s  == [v EXCEPT !.timestamp = get_time(semver_config.format.timestamp, t)]
      vt == v.version_type
  IN  CASE bump_type.kind = "Prefix" ->
             [res |-> Ok, v |-> bump_prefix(s, bump_type.prefix)]
        [] bump_type.kind = "Point" ->
             [res |-> Ok,
              v |-> [s EXCEPT !.version_type = bump_point(vt, bump_type.point)]]
        [] bump_type.kind = "Candidate" ->
             [res |-> Ok,
              v |-> [s EXCEPT !.version_type =
                       bump_candidate(vt, semver_config.candidate.promotion)]]
        [] bump_type.kind = "Release" ->
             [res |-> bump_release(vt).res,
              v |-> [s EXCEPT !.version_type = bump_release(vt).vt]]
        [] bump_type.kind = "Calendar" ->
             [res |-> LogicError("SemVer does not support --calendar bump"),
              v |-> s]
        [] bump_type.kind = "Base" ->
             [res |-> Ok, v |-> s]

\* bump_counter that counts whenever the format sets the key, false included
bump_counter_when_declared(enabled, counter) ==
  IF enabled # None
    THEN Some(IF counter = None THEN 0 ELSE counter[1] + 1)
    ELSE None

\* a counter that the format enables: Some(0) the first time, then + 1
bump_counter(enabled, counter) ==
  IF enabled = Some(TRUE)
    THEN Some(IF counter = None THEN 0 ELSE counter[1] + 1)
    ELSE None

\* bump_calendar without `*suffix = 0` on a new date
bump_calendar_keeps_suffix(calver_config, suffix, t) ==
  LET new_year  == StrfTime(calver_config.format.year, t)
      new_month == IF calver_config.format.month = None THEN None
                   ELSE Some(StrfTime(calver_config.format.month[1], t))
      new_day   == IF calver_config.format.day = None THEN None
                   ELSE Some(StrfTime(calver_config.format.day[1], t))
      is_same_date == /\ new_year = calver_config.version.year
                      /\ new_month = calver_config.version.month
                      /\ new_day = calver_config.version.day
  IN  IF is_same_date
        THEN [config |-> calver_config,
              suffix |-> IF calver_config.conflict.resolution = "overwrite"
                           THEN suffix ELSE suffix + 1]
        ELSE [config |->
                [calver_config EXCEPT
                   !.version = [year  |-> new_year,
                                month |-> new_month,
                                day   |-> new_day,
                                minor |-> bump_counter(calver_config.format.minor,
                                                       calver_config.version.minor),
                                micro |-> bump_counter(calver_config.format.micro,
                                                       calver_config.version.micro)]],
              suffix |-> suffix]

\* the arm BumpType::Calendar: the configuration and the suffix afterwards
bump_calendar(calver_config, suffix, t) ==
  LET new_year  == StrfTime(calver_config.format.year, t)
      new_month == IF calver_config.format.month = None THEN None
                   ELSE Some(StrfTime(calver_config.format.month[1], t))
      new_day   == IF calver_config.format.day = None THEN None
                   ELSE Some(StrfTime(calver_config.format.day[1], t))
      is_same_date == /\ new_year = calver_config.version.year
                      /\ new_month = calver_config.version.month
                      /\ new_day = calver_config.version.day
  IN  IF is_same_date
        THEN [config |-> calver_config,
              suffix |-> IF calver_config.conflict.resolution = "overwrite"
                           THEN suffix ELSE suffix + 1]
        ELSE [config |->
                [calver_config EXCEPT
                   !.version = [year  |-> new_year,
                                month |-> new_month,
                                day   |-> new_day,
                                minor |-> bump_counter(calver_config.format.minor,
                                                       calver_config.version.minor),
                                micro |-> bump_counter(calver_config.format.micro,
                                                       calver_config.version.micro)]],
              suffix |-> 0]

\* bump_calver with a Prefix arm, as the SemVer half has one
bump_calver_sets_prefix(v, bump_type, t) ==
  IF bump_type.kind = "Calendar"
    THEN LET r == bump_calendar(v.config.calver, v.version_type.suffix, t)
         IN  [res |-> Ok,
              v |-> [v EXCEPT !.config.calver = r.config,
                              !.version_type.suffix = r.suffix]]
  ELSE IF bump_type.kind = "Prefix"
    THEN [res |-> Ok, v |-> [v EXCEPT !.prefix = bump_type.prefix]]
    ELSE [res |-> LogicError("CalVer only supports --calendar bump type"),
          v |-> v]

\* the CalVer half of Version::bump
bump_calver(v, bump_type, t) ==
  IF bump_type.kind = "Calendar"
    THEN LET r == bump_calendar(v.config.calver, v.version_type.suffix, t)
         IN  [res |-> Ok,
              v |-> [v EXCEPT !.config.calver = r.config,
                              !.version_type.suffix = r.suffix]]
    ELSE [res |-> LogicError("CalVer only supports --calendar bump type"),
          v |-> v]

\* Version::bump: the result and the record afterwards
bump(v, bump_type, t) ==
  IF v.version_type.scheme = "SemVer"
    THEN bump_semver(v, bump_type, t)
    ELSE bump_calver(v, bump_type, t)

\* the counters of a record, which the guards keep at or below MaxCount
Counters(v) ==
  IF v.version_type.scheme = "SemVer"
    THEN {v.version_type.major, v.version_type.minor, v.version_type.patch,
          v.version_type.candidate}
    ELSE {v.version_type.suffix}
           \cup { v.config.calver.version.minor[i] :
                    i \in DOMAIN v.config.calver.version.minor }
           \cup { v.config.calver.version.micro[i] :
                    i \in DOMAIN v.config.calver.version.micro }

WithinMax(v) == \A c \in Counters(v) : c <= MaxCount

\* -------------------------------------------------------------- render

RECURSIVE Join(_, _)
\* parts.join(delimiter)
Join(parts, delimiter) ==
  IF parts = <<>> THEN ""
  ELSE IF Len(parts) = 1 THEN parts[1]
  ELSE parts[1] \o delimiter \o Join(Tail(parts), delimiter)

\* format!("{}{}.{}.{}", self.prefix, major, minor, patch)
base_string(v) ==
  v.prefix \o ToString(v.version_type.major) \o "." \o ToString(v.version_type.minor)
    \o "." \o ToString(v.version_type.patch)

\* format!("{}{}.{}.{}{}{}", self.prefix, major, minor, patch,
\*         semver_config.candidate.delimiter, candidate)
candidate_string(v) ==
  v.prefix \o ToString(v.version_type.major) \o "." \o ToString(v.version_type.minor)
    \o "." \o ToString(v.version_type.patch)
    \o v.config.semver.candidate.delimiter \o ToString(v.version_type.candidate)

\* the CalVer string: the stored components that are present, joined, with
\* the suffix when it is above 0
calver_string(v) ==
  LET calver_config == v.config.calver
      suffix == v.version_type.suffix
      parts == <<calver_config.version.year>>
                 \o calver_config.version.month
                 \o calver_config.version.day
                 \o [i \in DOMAIN calver_config.version.minor |->
                       ToString(calver_config.version.minor[i])]
                 \o [i \in DOMAIN calver_config.version.micro |->
                       ToString(calver_config.version.micro[i])]
      version_str == Join(parts, calver_config.format.delimiter)
  IN  IF suffix > 0
        THEN calver_config.format.prefix \o version_str
               \o calver_config.conflict.delimiter \o ToString(suffix)
        ELSE calver_config.format.prefix \o version_str

\* to_string with a Release arm that shows a candidate that is above 0
to_string_release_shows_candidate(v, bump_type) ==
  IF v.version_type.scheme = "SemVer"
    THEN CASE bump_type.kind \in {"Prefix", "Point"} -> base_string(v)
           [] bump_type.kind = "Release" ->
                IF v.version_type.candidate > 0
                  THEN candidate_string(v) ELSE base_string(v)
           [] bump_type.kind = "Candidate" -> candidate_string(v)
           [] bump_type.kind = "Base" ->
                ToString(v.version_type.major) \o "." \o ToString(v.version_type.minor)
                  \o "." \o ToString(v.version_type.patch)
           [] bump_type.kind = "Calendar" -> base_string(v)
    ELSE calver_string(v)

\* Version::to_string(bump_type)
to_string(v, bump_type) ==
  IF v.version_type.scheme = "SemVer"
    THEN CASE bump_type.kind \in {"Prefix", "Point", "Release"} -> base_string(v)
           [] bump_type.kind = "Candidate" -> candidate_string(v)
           [] bump_type.kind = "Base" ->
                ToString(v.version_type.major) \o "." \o ToString(v.version_type.minor)
                  \o "." \o ToString(v.version_type.patch)
           [] bump_type.kind = "Calendar" -> base_string(v)
    ELSE calver_string(v)

GitError(msg) == [ok |-> FALSE, err |-> "Git", msg |-> msg]

\* what run_git can return for a query: its output, or an error
GitResults(output, command) ==
  {[ok |-> TRUE, s |-> output], GitError("git " \o command \o ": fatal")}

\* what the source-control queries of one invocation answer: outside a
\* repository, or inside one with the commit tagged exactly or not and the
\* commit-id and branch queries answering or failing
Repositories ==
  {[repo |-> FALSE]}
    \cup { [repo |-> TRUE, tagged |-> tg, sha |-> sh, branch |-> br] :
             tg \in BOOLEAN,
             sh \in GitResults("abc1234", "rev-parse --short HEAD"),
             br \in GitResults("main", "rev-parse --abbrev-ref HEAD") }

\* get_development_suffix with the branch as the fallback
get_development_suffix_defaults_to_branch(v, git) ==
  IF v.config.scheme = "SemVer"
    THEN LET promotion == v.config.semver.development.promotion
         IN  CASE promotion = "git_sha" -> git.sha
               [] promotion = "branch" -> git.branch
               [] promotion = "full" ->
                    IF ~git.branch.ok THEN git.branch
                    ELSE IF ~git.sha.ok THEN git.sha
                    ELSE [ok |-> TRUE, s |-> git.branch.s \o "_" \o git.sha.s]
               [] OTHER -> git.branch
    ELSE LogicError("CalVer does not support development suffixes")

\* get_development_suffix(version)
get_development_suffix(v, git) ==
  IF v.config.scheme = "SemVer"
    THEN LET promotion == v.config.semver.development.promotion
         IN  CASE promotion = "git_sha" -> git.sha
               [] promotion = "branch" -> git.branch
               [] promotion = "full" ->
                    IF ~git.branch.ok THEN git.branch
                    ELSE IF ~git.sha.ok THEN git.sha
                    ELSE [ok |-> TRUE, s |-> git.branch.s \o "_" \o git.sha.s]
               [] OTHER -> git.sha
    ELSE LogicError("CalVer does not support development suffixes")

\* fully_qualified_string that falls back to the non-suffixed string when
\* the development suffix cannot be had
fully_qualified_string_falls_back(v, git) ==
  IF v.version_type.scheme = "SemVer"
    THEN LET semver_config == v.config.semver
             candidate == v.version_type.candidate
             suffix == get_development_suffix(v, git)
             plain == IF candidate = 0 THEN base_string(v) ELSE candidate_string(v)
         IN  IF ~git.repo \/ git.tagged \/ ~suffix.ok
               THEN [ok |-> TRUE, s |-> plain]
               ELSE [ok |-> TRUE,
                     s |-> plain \o semver_config.development.delimiter \o suffix.s]
    ELSE [ok |-> TRUE, s |-> calver_string(v)]

\* fully_qualified_string that reports the missing repository
fully_qualified_string_needs_repository(v, git) ==
  IF v.version_type.scheme = "SemVer"
    THEN LET semver_config == v.config.semver
             candidate == v.version_type.candidate
             suffix == get_development_suffix(v, git)
         IN  IF ~git.repo
               THEN GitError("git rev-parse --short HEAD: fatal: not a git repository")
             ELSE IF git.tagged
               THEN [ok |-> TRUE,
                     s |-> IF candidate = 0 THEN base_string(v) ELSE candidate_string(v)]
             ELSE IF ~suffix.ok THEN suffix
             ELSE [ok |-> TRUE,
                   s |-> (IF candidate = 0 THEN base_string(v) ELSE candidate_string(v))
                           \o semver_config.development.delimiter \o suffix.s]
    ELSE [ok |-> TRUE, s |-> calver_string(v)]

\* fully_qualified_string without the look at the tag
fully_qualified_string_always_suffixed(v, git) ==
  IF v.version_type.scheme = "SemVer"
    THEN LET semver_config == v.config.semver
             candidate == v.version_type.candidate
             suffix == get_development_suffix(v, git)
         IN  IF ~git.repo
               THEN [ok |-> TRUE,
                     s |-> IF candidate > 0 THEN candidate_string(v) ELSE base_string(v)]
             ELSE IF ~suffix.ok THEN suffix
             ELSE [ok |-> TRUE,
                   s |-> (IF candidate = 0 THEN base_string(v) ELSE candidate_string(v))
                           \o semver_config.development.delimiter \o suffix.s]
    ELSE [ok |-> TRUE, s |-> calver_string(v)]

\* Version::fully_qualified_string()
fully_qualified_string(v, git) ==
  IF v.version_type.scheme = "SemVer"
    THEN LET semver_config == v.config.semver
             candidate == v.version_type.candidate
             suffix == get_development_suffix(v, git)
         IN  IF ~git.repo
               THEN [ok |-> TRUE,
                     s |-> IF candidate > 0 THEN candidate_string(v) ELSE base_string(v)]
             ELSE IF git.tagged
               THEN [ok |-> TRUE,
                     s |-> IF candidate = 0 THEN base_string(v) ELSE candidate_string(v)]
             ELSE IF ~suffix.ok THEN suffix
             ELSE [ok |-> TRUE,
                   s |-> (IF candidate = 0 THEN base_string(v) ELSE candidate_string(v))
                           \o semver_config.development.delimiter \o suffix.s]
    ELSE [ok |-> TRUE, s |-> calver_string(v)]

\* --------------------------------------------------- initialise and tag

\* default_calver_config(prefix), with today's date as the stored date
default_calver_config(prefix, t) ==
  [scheme |-> "CalVer",
   calver |->
     [ format   |-> [prefix |-> prefix, delimiter |-> ".", year |-> <<"%Y">>,
                     month |-> Some(<<"%m">>), day |-> Some(<<"%d">>),
                     minor |-> Some(FALSE), micro |-> Some(FALSE)],
       version  |-> [year |-> StrfTime(<<"%Y">>, t),
                     month |-> Some(StrfTime(<<"%m">>, t)),
                     day |-> Some(StrfTime(<<"%d">>, t)),
                     minor |-> None, micro |-> None],
       conflict |-> [resolution |-> "suffix", suffix |-> 0, delimiter |-> "-"] ]]

\* the record that initialize builds for --calver
CalVerRecord(prefix, t) ==
  [loaded |-> TRUE,
   prefix |-> prefix,
   timestamp |-> None,
   version_type |-> [scheme |-> "CalVer", suffix |-> 0],
   config |-> default_calver_config(prefix, t)]

\* Version::file_init: the document it writes is one of two fixed texts,
\* chosen by the scheme of the record's configuration; no field of the
\* record is written into it
file_init(v) ==
  IF v.config.scheme = "SemVer"
    THEN [semver |-> Some(SemVerConfig("v", Some(DefaultTimestamp), 0, 0, 0, 0, "minor")),
          calver |-> None,
          rest   |-> "# https://github.com/launchfirestorm/bump"]
    ELSE [semver |-> None,
          calver |-> Some(
            [ format   |-> [prefix |-> "", delimiter |-> ".", year |-> <<"%Y">>,
                            month |-> Some(<<"%m">>), day |-> Some(<<"%d">>),
                            minor |-> Some(FALSE), micro |-> Some(FALSE)],
              version  |-> [year |-> "2025", month |-> Some("04"),
                            day |-> Some("28"), minor |-> None, micro |-> None],
              conflict |-> [resolution |-> "suffix", suffix |-> 0,
                            delimiter |-> "-"] ]),
          rest   |-> "# https://github.com/launchfirestorm/bump"]

\* now.format(&calver_config.format): today's date in the patterns the
\* format section declares, joined by its delimiter
date_str(calver_config, t) ==
  LET patterns == <<calver_config.format.year>>
                    \o calver_config.format.month
                    \o calver_config.format.day
  IN  Join([i \in DOMAIN patterns |-> StrfTime(patterns[i], t)],
           calver_config.format.delimiter)

\* the tag name create_git_tag builds
tag_name(v, t) ==
  IF v.version_type.scheme = "SemVer"
    THEN IF v.version_type.candidate > 0
           THEN v.prefix \o ToString(v.version_type.major) \o "."
                  \o ToString(v.version_type.minor) \o "."
                  \o ToString(v.version_type.patch)
                  \o v.config.semver.candidate.delimiter
                  \o ToString(v.version_type.candidate)
           ELSE v.prefix \o ToString(v.version_type.major) \o "."
                  \o ToString(v.version_type.minor) \o "."
                  \o ToString(v.version_type.patch)
    ELSE IF v.version_type.suffix > 0
           THEN v.prefix \o date_str(v.config.calver, t)
                  \o v.config.calver.conflict.delimiter
                  \o ToString(v.version_type.suffix)
           ELSE v.prefix \o date_str(v.config.calver, t)

\* create_git_tag(version, message) in a directory that is a repository or
\* not, whose tags are `existing`; `creates` is whether `git tag -a` succeeds
create_git_tag(v, repo, existing, t, creates) ==
  IF ~repo
    THEN [res |-> LogicError("Not in a git repository"),
          name |-> None, tags |-> existing]
  ELSE IF tag_name(v, t) \in existing
    THEN [res |-> GitError("Tag '" \o tag_name(v, t) \o "' already exists"),
          name |-> Some(tag_name(v, t)), tags |-> existing]
  ELSE IF ~creates
    THEN [res |-> GitError("failed to create tag '" \o tag_name(v, t) \o "': fatal"),
          name |-> Some(tag_name(v, t)), tags |-> existing]
  ELSE [res |-> Ok, name |-> Some(tag_name(v, t)),
        tags |-> existing \cup {tag_name(v, t)}]

\* print that never picks the Candidate form
print_always_point(v, base) ==
  to_string(v, IF base THEN [kind |-> "Base"]
               ELSE [kind |-> "Point", point |-> "Patch"])

\* bump::print(version, base): the string it prints
print(v, base) ==
  to_string(v, IF base THEN [kind |-> "Base"]
               ELSE IF v.version_type.scheme = "SemVer" /\ v.version_type.candidate > 0
                 THEN [kind |-> "Candidate"]
               ELSE [kind |-> "Point", point |-> "Patch"])

\* --------------------------------------------------------------- apply

\* the bump arguments of a command line: the options that are given
Arguments ==
  {{}} \cup { {a} : a \in {"prefix", "major", "minor", "patch", "candidate", "release"} }
    \cup {{"prefix", "patch"}, {"major", "release"}}

\* get_bump_type that takes a command line without a kind as --patch
get_bump_type_defaults_to_patch(matches) ==
  IF "prefix" \in matches
    THEN [res |-> Ok, bump_type |-> [kind |-> "Prefix", prefix |-> "rel"]]
  ELSE IF "major" \in matches
    THEN [res |-> Ok, bump_type |-> [kind |-> "Point", point |-> "Major"]]
  ELSE IF "minor" \in matches
    THEN [res |-> Ok, bump_type |-> [kind |-> "Point", point |-> "Minor"]]
  ELSE IF "candidate" \in matches
    THEN [res |-> Ok, bump_type |-> [kind |-> "Candidate"]]
  ELSE IF "release" \in matches
    THEN [res |-> Ok, bump_type |-> [kind |-> "Release"]]
  ELSE [res |-> Ok, bump_type |-> [kind |-> "Point", point |-> "Patch"]]

\* get_bump_type(matches): the first of prefix, major, minor, patch,
\* candidate, release that is given; the value of --prefix is "rel"
get_bump_type(matches) ==
  IF "prefix" \in matches
    THEN [res |-> Ok, bump_type |-> [kind |-> "Prefix", prefix |-> "rel"]]
  ELSE IF "major" \in matches
    THEN [res |-> Ok, bump_type |-> [kind |-> "Point", point |-> "Major"]]
  ELSE IF "minor" \in matches
    THEN [res |-> Ok, bump_type |-> [kind |-> "Point", point |-> "Minor"]]
  ELSE IF "patch" \in matches
    THEN [res |-> Ok, bump_type |-> [kind |-> "Point", point |-> "Patch"]]
  ELSE IF "candidate" \in matches
    THEN [res |-> Ok, bump_type |-> [kind |-> "Candidate"]]
  ELSE IF "release" \in matches
    THEN [res |-> Ok, bump_type |-> [kind |-> "Release"]]
  ELSE [res |-> LogicError("No valid bump type specified")]

\* the check of apply that the kind suits the scheme
scheme_check(v, bump_type) ==
  IF v.version_type.scheme = "CalVer" /\ bump_type.kind = "Point"
    THEN LogicError("CalVer does not support major/minor/patch bumps")
  ELSE IF v.version_type.scheme = "CalVer" /\ bump_type.kind = "Candidate"
    THEN LogicError("CalVer does not support candidate versions")
  ELSE IF v.version_type.scheme = "CalVer" /\ bump_type.kind = "Release"
    THEN LogicError("CalVer does not support release bumps")
  ELSE Ok

\* bump::apply on the document d at the time t: get_version, get_bump_type,
\* the scheme check, Version::bump and Version::to_file, each `?` returning
\* the error; the result, the record and the document afterwards
apply(d, matches, t) ==
  LET l == from_file(d, t)
  IN  IF ~l.ok THEN [res |-> l, v |-> NoVersion, doc |-> d]
      ELSE LET g == get_bump_type(matches)
           IN  IF ~g.res.ok THEN [res |-> g.res, v |-> l.v, doc |-> d]
               ELSE IF ~scheme_check(l.v, g.bump_type).ok
                 THEN [res |-> scheme_check(l.v, g.bump_type), v |-> l.v, doc |-> d]
               ELSE LET b == bump(l.v, g.bump_type, t)
                    IN  IF ~b.res.ok THEN [res |-> b.res, v |-> b.v, doc |-> d]
                        ELSE [res |-> Ok, v |-> b.v, doc |-> to_file(b.v, d)]

\* ------------------------------------------------- the state machine

\* no call of bump since the record was made
NotBumped == [called |-> FALSE]

\* no candidate line is being followed
NoLine == [open |-> FALSE]

\* no load-bump-save cycle has run on the document as it is
NoCycle == [n |-> 0]

\* no reading or rendering call has returned since the last step
Nothing == [op |-> "none"]

\* no bump of a sequence has been made and no state of it is remembered
NoTrail ==
  [marked |-> FALSE, vt |-> None, name |-> None, moved |-> FALSE,
   prev |-> "none", released |-> FALSE, between |-> FALSE]

\* the value a reading or rendering call gave back
Returned(op, res) == [op |-> op, res |-> res]

\* the files an invocation can find at the path
\* CalVer documents of the first day whose format sets minor and micro to
\* true, to false or not at all, with and without stored counters
CounterDocs ==
  { [semver |-> None,
     calver |-> Some([CalVerConfig(Some(<<"%m">>), Some(<<"%d">>), fn,
                                   StrfTime(<<"%Y">>, Days[1]),
                                   Some(StrfTime(<<"%m">>, Days[1])),
                                   Some(StrfTime(<<"%d">>, Days[1])),
                                   vn, "suffix", 0)
                        EXCEPT !.format.micro = fc, !.version.micro = vc]),
     rest |-> "# comments"] :
      fn \in {None, Some(FALSE), Some(TRUE)}, fc \in {None, Some(FALSE), Some(TRUE)},
      vn \in {None, Some(0)}, vc \in {None, Some(1)} }

Files ==
  SemVerDocs \cup CalVerDocs \cup CounterDocs \cup SchemeErrorDocs
    \cup {NoFile, Malformed}

Init ==
  /\ doc \in Files
  /\ version = NoVersion
  /\ pc = "start"
  /\ now = 1
  /\ bumped = NotBumped
  /\ cand = NoLine
  /\ cycle = NoCycle
  /\ returned = Nothing
  /\ tags = {}
  /\ trail = NoTrail

\* what the formats of record v make of the instant t
Reading(v, t) ==
  IF v.version_type.scheme = "SemVer"
    THEN [timestamp |-> get_time(v.config.semver.format.timestamp, t)]
    ELSE [year  |-> StrfTime(v.config.calver.format.year, t),
          month |-> IF v.config.calver.format.month = None THEN None
                    ELSE Some(StrfTime(v.config.calver.format.month[1], t)),
          day   |-> IF v.config.calver.format.day = None THEN None
                    ELSE Some(StrfTime(v.config.calver.format.day[1], t))]

\* the call of bump that has just returned
Called(v, bump_type, t, res) ==
  [called |-> TRUE, bump_type |-> bump_type, before |-> v,
   today |-> Reading(v, t), res |-> res]

\* the candidate line after a call of bump: it opens on a successful
\* Candidate bump from candidate == 0, grows by further successful
\* Candidate bumps, ends with a successful Release, and is dropped by
\* every other call
NextLine(line, before, bump_type, res) ==
  IF ~res.ok \/ before.version_type.scheme # "SemVer" THEN NoLine
  ELSE IF bump_type.kind = "Candidate" /\ before.version_type.candidate = 0
    THEN [open |-> TRUE, from |-> before.version_type,
          promotion |-> before.config.semver.candidate.promotion,
          more |-> 0, released |-> FALSE]
  ELSE IF bump_type.kind = "Candidate" /\ line.open /\ ~line.released
    THEN [line EXCEPT !.more = @ + 1]
  ELSE IF bump_type.kind = "Release" /\ line.open /\ ~line.released
    THEN [line EXCEPT !.released = TRUE]
  ELSE NoLine

\* let version = Version::from_file(path), in a fresh invocation
FromFile ==
  LET r == from_file(doc, Days[now])
  IN  /\ pc = "start"
      /\ r.ok
      /\ version' = r.v
      /\ pc' = "loaded"
      /\ bumped' = NotBumped
      /\ cand' = NoLine
      /\ cycle' = NoCycle
      /\ UNCHANGED <<doc, now, returned, tags, trail>>

\* Version::from_file(path)? returns the error, which ends the invocation
FromFileFails ==
  LET r == from_file(doc, Days[now])
  IN  /\ pc = "start"
      /\ ~r.ok
      /\ pc' = "failed"
      /\ returned' = Returned("from_file", r)
      /\ UNCHANGED <<doc, version, now, bumped, cand, cycle, tags, trail>>

\* version.bump(&bump_type)
Bump(bump_type) ==
  /\ pc = "loaded"
  /\ LET r == bump(version, bump_type, Days[now])
     IN  /\ WithinMax(r.v)
         /\ version' = r.v
         /\ bumped' = Called(version, bump_type, Days[now], r.res)
         /\ cand' = NextLine(cand, version, bump_type, r.res)
  /\ cycle' = NoCycle
  /\ UNCHANGED <<doc, pc, now, returned, tags, trail>>

\* version.to_file(), the last step of an invocation
ToFile ==
  /\ pc = "loaded"
  /\ doc' = to_file(version, doc)
  /\ pc' = "saved"
  /\ bumped' = NotBumped
  /\ cand' = NoLine
  /\ cycle' = NoCycle
  /\ UNCHANGED <<version, now, returned, tags, trail>>

\* let updated = Version::from_file(path), once the record is written: the
\* document is read back while the written record is still at hand
Reload ==
  /\ pc \in {"saved", "initialized"}
  /\ returned.op # "from_file"
  /\ returned' = Returned("from_file", from_file(doc, Days[now]))
  /\ UNCHANGED <<doc, version, pc, now, bumped, cand, cycle, tags, trail>>

\* some strftime pattern of document d renders the clock
ReadsClock(d) ==
  /\ d \notin {NoFile, Malformed}
  /\ \/ d.calver # None
     \/ d.semver # None /\ d.semver[1].format.timestamp # None

\* the clock passes to the next instant; it is followed while an invocation
\* can still read it and a pattern renders it (without one every instant
\* reads the same)
Tick ==
  /\ pc \notin {"saved", "failed"}
  /\ ReadsClock(doc)
  /\ now < Len(Days)
  /\ now' = now + 1
  /\ bumped' = NotBumped
  /\ cycle' = NoCycle
  /\ UNCHANGED <<doc, version, pc, cand, returned, tags, trail>>

\* one round of the loop of the CalVer tests, an invocation of its own:
\* from_file, bump(Calendar), to_file, all unwrapped; `version` is the
\* record of the round
CalendarCycle ==
  LET l == from_file(doc, Days[now])
  IN  /\ pc = "start"
      /\ l.ok
      /\ l.v.version_type.scheme = "CalVer"
      /\ cycle.n < MaxCycles
      /\ LET r == bump(l.v, [kind |-> "Calendar"], Days[now])
         IN  /\ r.res.ok
             /\ WithinMax(r.v)
             /\ version' = r.v
             /\ doc' = to_file(r.v, doc)
             /\ bumped' = Called(l.v, [kind |-> "Calendar"], Days[now], r.res)
      /\ cand' = NoLine
      /\ cycle' = IF cycle.n > 0
                    THEN [cycle EXCEPT !.n = @ + 1]
                    ELSE [n |-> 1, start |-> doc.calver[1]]
      /\ UNCHANGED <<pc, now, returned, tags, trail>>

\* one invocation of `bump` with bump arguments on a document that loads;
\* on one that does not, get_version fails as in FromFileFails
Apply(matches) ==
  LET r == apply(doc, matches, Days[now])
  IN  /\ pc = "start"
      /\ from_file(doc, Days[now]).ok
      /\ WithinMax(r.v)
      /\ doc' = r.doc
      /\ version' = r.v
      /\ pc' = "applied"
      /\ returned' = Returned("apply",
                              [matches |-> matches, before |-> doc, out |-> r.res])
      /\ bumped' = NotBumped
      /\ cand' = NoLine
      /\ cycle' = NoCycle
      /\ UNCHANGED <<now, tags, trail>>

Next ==
  \/ FromFile
  \/ FromFileFails
  \/ \E bump_type \in BumpTypes : Bump(bump_type)
  \/ ToFile
  \/ Reload
  \/ Tick
  \/ CalendarCycle
  \/ \E matches \in Arguments : Apply(matches)

Spec == Init /\ [][Next]_vars

\* --------------------------------- making, bumping and rendering records

\* development.promotion: the three policies and an unrecognised string
DevelopmentPromotions == {"git_sha", "branch", "full", "bogus"}

\* the candidate and development policies of the documents that are
\* rendered: every development policy, and an unrecognised string for each
\* and for both
RenderSettings ==
  { <<"minor", dp>> : dp \in DevelopmentPromotions }
    \cup { <<"bogus", dp>> : dp \in {"git_sha", "bogus"} }
    \cup { <<"major", "git_sha">>, <<"patch", "git_sha">> }

\* SemVer documents without a timestamp pattern
RenderDocs ==
  { [semver |-> Some([SemVerConfig("v", None, ma, 0, pa, ca, f[1])
                        EXCEPT !.development.promotion = f[2]]),
     calver |-> None, rest |-> "# comments"] :
      f \in RenderSettings, ma \in InitNums, pa \in InitNums, ca \in InitNums }

\* versions written as <letters><major>.<minor>.<patch>, some with
\* -rc<candidate>
WrittenVersions ==
  { [prefix |-> "relx", major |-> 2, minor |-> 0, patch |-> 5, candidate |-> Some(3)],
    [prefix |-> "v", major |-> 1, minor |-> 2, patch |-> 0, candidate |-> None],
    [prefix |-> "", major |-> 0, minor |-> 1, patch |-> 1, candidate |-> None],
    [prefix |-> "V", major |-> 10, minor |-> 0, patch |-> 0, candidate |-> Some(0)] }

\* the string a written version is
Written(w) ==
  w.prefix \o ToString(w.major) \o "." \o ToString(w.minor) \o "." \o ToString(w.patch)
    \o (IF w.candidate = None THEN "" ELSE "-rc" \o ToString(w.candidate[1]))

\* for each numeric group a string that lacks it
Lacking ==
  [MAJOR |-> "v.2.0", MINOR |-> "v1..0", PATCH |-> "v1.2", CANDIDATE |-> "v1.0.0-rc"]

\* the strings from_string is given
VersionStrings ==
  { Written(w) : w \in WrittenVersions }
    \cup { Lacking[field] : field \in DOMAIN Lacking }
    \cup {"rc1"}

\* SemVer documents whose format section sets another delimiter than "."
DelimiterDocs ==
  { [semver |-> Some([SemVerConfig("v", None, ma, 0, pa, ca, "minor")
                        EXCEPT !.format.delimiter = "_"]),
     calver |-> None, rest |-> "# comments"] :
      ma \in InitNums, pa \in InitNums, ca \in InitNums }

InitRecords ==
  /\ doc \in RenderDocs \cup DelimiterDocs \cup CalVerDocs \cup {NoFile}
  /\ version = NoVersion
  /\ pc = "start"
  /\ now = 1
  /\ bumped = NotBumped
  /\ cand = NoLine
  /\ cycle = NoCycle
  /\ returned = Nothing
  /\ tags = {}
  /\ trail = NoTrail

\* Version::default(path), for a file that is still to be written
Default ==
  /\ pc = "start"
  /\ doc = NoFile
  /\ version' = default
  /\ pc' = "loaded"
  /\ UNCHANGED <<doc, now, bumped, cand, cycle, returned, tags, trail>>

\* Version::from_string(version_str, path), for a file that is still to be
\* written
FromString(version_str) ==
  LET r == from_string(version_str)
  IN  /\ pc = "start"
      /\ doc = NoFile
      /\ IF r.ok
           THEN version' = r.v /\ pc' = "loaded"
           ELSE version' = version /\ pc' = "failed"
      /\ returned' = Returned("from_string", [version_str |-> version_str, out |-> r])
      /\ UNCHANGED <<doc, now, bumped, cand, cycle, tags, trail>>

\* version.to_string(&bump_type), the last step of an invocation
Render(bump_type) ==
  /\ pc = "loaded"
  /\ returned' = Returned("to_string",
                          [bump_type |-> bump_type,
                           s |-> to_string(version, bump_type)])
  /\ pc' = "printed"
  /\ bumped' = NotBumped
  /\ cand' = NoLine
  /\ UNCHANGED <<doc, version, now, cycle, tags, trail>>

\* version.fully_qualified_string(), the last step of an invocation
FullyQualifiedString(git) ==
  /\ pc = "loaded"
  /\ returned' = Returned("fully_qualified_string",
                          [git |-> git,
                           out |-> fully_qualified_string(version, git)])
  /\ pc' = "printed"
  /\ bumped' = NotBumped
  /\ cand' = NoLine
  /\ UNCHANGED <<doc, version, now, cycle, tags, trail>>

\* the prefixes given on the command line of `bump init`
InitPrefixes == {"v", "rel"}

\* bump::initialize without --calver: the record parsed from the tag or
\* entered at the prompt gets the prefix of the command line, then file_init
Initialize(prefix) ==
  /\ pc = "loaded"
  /\ doc = NoFile
  /\ LET v == [version EXCEPT !.prefix = prefix]
     IN  /\ version' = v
         /\ doc' = file_init(v)
  /\ pc' = "initialized"
  /\ bumped' = NotBumped
  /\ cand' = NoLine
  /\ UNCHANGED <<now, cycle, returned, tags, trail>>

\* bump::initialize with --calver
InitializeCalVer(prefix) ==
  /\ pc = "start"
  /\ doc = NoFile
  /\ LET v == CalVerRecord(prefix, Days[now])
     IN  /\ version' = v
         /\ doc' = file_init(v)
  /\ pc' = "initialized"
  /\ UNCHANGED <<now, bumped, cand, cycle, returned, tags, trail>>

\* bump::tag_version at the clock reading n, which is the previous one or
\* the next: from_file, then create_git_tag on the record
TagVersion(repo, creates, n) ==
  /\ pc \in {"start", "tagged"}
  /\ n \in {now, now + 1} \cap (1..Len(Days))
  /\ now' = n
  /\ LET r == from_file(doc, Days[n])
         earlier == pc = "tagged" /\ (returned.res.earlier \/ returned.res.out.ok)
     IN  IF r.ok
           THEN LET c == create_git_tag(r.v, repo, tags, Days[n], creates)
                IN  /\ version' = r.v
                    /\ tags' = c.tags
                    /\ returned' = Returned("tag_version",
                                            [repo |-> repo, tag_name |-> c.name,
                                             before |-> tags, out |-> c.res,
                                             earlier |-> earlier])
           ELSE /\ version' = version
                /\ tags' = tags
                /\ returned' = Returned("tag_version",
                                        [repo |-> repo, tag_name |-> None,
                                         before |-> tags, out |-> r,
                                         earlier |-> earlier])
  /\ pc' = "tagged"
  /\ UNCHANGED <<doc, bumped, cand, cycle, trail>>

\* bump::print on the record
PrintVersion(base) ==
  /\ pc = "loaded"
  /\ returned' = Returned("print", [base |-> base, s |-> print(version, base)])
  /\ pc' = "printed"
  /\ bumped' = NotBumped
  /\ cand' = NoLine
  /\ UNCHANGED <<doc, version, now, cycle, tags, trail>>

NextRecords ==
  \/ FromFile
  \/ Default
  \/ \E version_str \in VersionStrings : FromString(version_str)
  \/ \E bump_type \in BumpTypes : Bump(bump_type)
  \/ \E bump_type \in BumpTypes : Render(bump_type)
  \/ \E git \in Repositories : FullyQualifiedString(git)
  \/ \E prefix \in InitPrefixes : Initialize(prefix)
  \/ \E prefix \in InitPrefixes : InitializeCalVer(prefix)
  \/ Reload
  \/ \E repo \in BOOLEAN, creates \in BOOLEAN, n \in 1..Len(Days) :
       TagVersion(repo, creates, n)
  \/ \E base \in BOOLEAN : PrintVersion(base)

SpecRecords == InitRecords /\ [][NextRecords]_vars

\* ------------------------------ third specification: sequences of bumps

\* the bumps of a sequence
SequenceBumps ==
  { bump_type \in BumpTypes : bump_type.kind \in {"Point", "Candidate", "Release"} }

\* the SemVer documents a sequence starts from: each promotion policy, no
\* timestamp pattern, and a version 0.0.0 or 0.0.1, candidate or not
SequenceDocs ==
  { d \in SemVerDocs :
      /\ d.semver[1].format.timestamp = None
      /\ d.semver[1].candidate.promotion \in {"major", "minor", "patch"}
      /\ d.semver[1].version.major = 0
      /\ d.semver[1].version.minor = 0 }

InitSequence ==
  /\ doc \in SequenceDocs
  /\ version = NoVersion
  /\ pc = "start"
  /\ now = 1
  /\ bumped = NotBumped
  /\ cand = NoLine
  /\ cycle = NoCycle
  /\ returned = Nothing
  /\ tags = {}
  /\ trail = NoTrail

\* the trail after the call of bump(bump_type) on v.  A trail either
\* remembers a state of the sequence or follows its releases.  With `marks`
\* the state before the call becomes the one remembered, if none is yet, and
\* `moved` is that a bump has succeeded since.  Until then the trail follows
\* the calls before this one, the last of which was `earlier` and returned
\* `res`: `prev` is the kind of the last that succeeded, `released` that a
\* Release has succeeded, `between` that a Candidate has succeeded since the
\* last Release that did
NextTrail(t, v, earlier, marks, res) ==
  LET ok == earlier.called /\ earlier.res.ok
      kind == IF ok THEN earlier.bump_type.kind ELSE "none"
  IN  IF t.marked
        THEN [t EXCEPT !.moved = @ \/ res.ok]
      ELSE IF marks
        THEN [NoTrail EXCEPT !.marked = TRUE, !.vt = Some(v.version_type),
                             !.name = Some(tag_name(v, Days[1])),
                             !.moved = res.ok]
      ELSE [t EXCEPT
              !.prev = IF ok THEN kind ELSE @,
              !.released = @ \/ kind = "Release",
              !.between = IF kind = "Release" THEN FALSE
                          ELSE @ \/ kind = "Candidate"]

\* one call of Version::bump in a sequence of bumps of a SemVer record
BumpInSequence(bump_type, marks) ==
  /\ pc = "loaded"
  /\ LET r == bump(version, bump_type, Days[now])
     IN  /\ WithinMax(r.v)
         /\ version' = r.v
         /\ bumped' = Called(version, bump_type, Days[now], r.res)
         /\ trail' = NextTrail(trail, version, bumped, marks, r.res)
  /\ UNCHANGED <<doc, pc, now, cand, cycle, returned, tags>>

NextSequence ==
  \/ FromFile
  \/ \E bump_type \in SequenceBumps, marks \in BOOLEAN :
       BumpInSequence(bump_type, marks)

SpecSequence == InitSequence /\ [][NextSequence]_vars

\* -------------------------------------------------------------- claims

\* a call bump(kind) on a record of the scheme has just returned
After(scheme, kind) ==
  /\ bumped.called
  /\ bumped.before.version_type.scheme = scheme
  /\ bumped.bump_type.kind = kind

\* the numbers of a SemVer record
Numbers(major, minor, patch, candidate) ==
  [scheme |-> "SemVer", major |-> major, minor |-> minor, patch |-> patch,
   candidate |-> candidate]

\* C1: Release on a SemVer record with candidate == 0 returns a logic error
\* and leaves major, minor, patch and candidate as they were.
C1_ReleaseWithoutCandidate ==
  (After("SemVer", "Release") /\ bumped.before.version_type.candidate = 0)
    => /\ ~bumped.res.ok
       /\ bumped.res.err = "LogicError"
       /\ version.version_type = bumped.before.version_type

C1_Witness ==
  /\ After("SemVer", "Release")
  /\ bumped.before.version_type.candidate = 0
  /\ bumped.before.version_type.patch > 0

\* C2: whenever bump returns an error, every field of the record, the
\* rendered timestamp included, is as it was before the call.
C2_ErrorLeavesRecord ==
  (bumped.called /\ ~bumped.res.ok) => version = bumped.before

\* C3: bump returns a logic error for every mismatch of bump kind and
\* scheme: Calendar on SemVer; Point, Candidate, Release, SetPrefix on CalVer.
C3_MismatchIsLogicError ==
  (\/ After("SemVer", "Calendar")
   \/ \E kind \in {"Point", "Candidate", "Release", "Prefix"} :
        After("CalVer", kind))
    => /\ ~bumped.res.ok
       /\ bumped.res.err = "LogicError"

C3_Witness ==
  /\ After("CalVer", "Prefix")
  /\ ~bumped.res.ok

\* C4: on a SemVer record, whatever its candidate, Point(Major) gives
\* (major+1, 0, 0, candidate 0), Point(Minor) (major, minor+1, 0, 0) and
\* Point(Patch) (major, minor, patch+1, 0); the prefix stays.
C4_PointBump ==
  After("SemVer", "Point")
    => LET b  == bumped.before.version_type
           pt == bumped.bump_type.point
       IN  /\ bumped.res.ok
           /\ version.prefix = bumped.before.prefix
           /\ pt = "Major" =>
                version.version_type = Numbers(b.major + 1, 0, 0, 0)
           /\ pt = "Minor" =>
                version.version_type = Numbers(b.major, b.minor + 1, 0, 0)
           /\ pt = "Patch" =>
                version.version_type = Numbers(b.major, b.minor, b.patch + 1, 0)

C4_Witness ==
  /\ After("SemVer", "Point")
  /\ bumped.bump_type.point = "Patch"
  /\ bumped.before.version_type.candidate > 0
  /\ bumped.before.version_type.minor > 0

\* C5: Candidate on a SemVer record with candidate > 0 adds one to candidate
\* and leaves major, minor, patch and prefix, whatever the promotion policy.
C5_NextCandidate ==
  (After("SemVer", "Candidate") /\ bumped.before.version_type.candidate > 0)
    => LET b == bumped.before.version_type
       IN  /\ bumped.res.ok
           /\ version.prefix = bumped.before.prefix
           /\ version.version_type =
                Numbers(b.major, b.minor, b.patch, b.candidate + 1)

C5_Witness ==
  /\ After("SemVer", "Candidate")
  /\ bumped.before.version_type.candidate > 0
  /\ bumped.before.version_type.patch > 0
  /\ bumped.before.config.semver.candidate.promotion = "major"

\* C6: Candidate on a SemVer record with candidate == 0 applies the
\* promotion policy once and sets candidate to 1: major gives (major+1, 0,
\* 0), minor (major, minor+1, 0), patch (major, minor, patch+1), and any
\* other policy string the same as minor.
C6_FirstCandidate ==
  (After("SemVer", "Candidate") /\ bumped.before.version_type.candidate = 0)
    => LET b  == bumped.before.version_type
           pr == bumped.before.config.semver.candidate.promotion
       IN  /\ bumped.res.ok
           /\ pr = "major" =>
                version.version_type = Numbers(b.major + 1, 0, 0, 1)
           /\ pr = "patch" =>
                version.version_type = Numbers(b.major, b.minor, b.patch + 1, 1)
           /\ pr \notin {"major", "patch"} =>
                version.version_type = Numbers(b.major, b.minor + 1, 0, 1)

C6_Witness ==
  /\ After("SemVer", "Candidate")
  /\ bumped.before.version_type.candidate = 0
  /\ bumped.before.version_type.patch > 0
  /\ bumped.before.config.semver.candidate.promotion = "bogus"

\* the numbers the policy gives a record that starts a candidate line
Promoted(from, promotion) ==
  CASE promotion = "major" -> <<from.major + 1, 0, 0>>
    [] promotion = "patch" -> <<from.major, from.minor, from.patch + 1>>
    [] OTHER -> <<from.major, from.minor + 1, 0>>

\* C7: from candidate == 0, a Candidate bump, k >= 0 further Candidate bumps
\* and a Release end with the major/minor/patch the first Candidate bump's
\* promotion produced and candidate == 0; until the Release the candidate
\* is 1 + k.
C7_CandidateLine ==
  cand.open
    => LET p == Promoted(cand.from, cand.promotion)
       IN  version.version_type =
             Numbers(p[1], p[2], p[3],
                     IF cand.released THEN 0 ELSE 1 + cand.more)

C7_Witness ==
  /\ cand.open
  /\ cand.released
  /\ cand.more > 0
  /\ cand.from.patch > 0

\* the stored date of a CalVer configuration is the reading of the clock
SameDate(c, today) ==
  /\ today.year = c.version.year
  /\ today.month = c.version.month
  /\ today.day = c.version.day

\* a date component the format declares differs from the reading
DeclaredDiffers(c, today) ==
  \/ today.year # c.version.year
  \/ c.format.month # None /\ today.month # c.version.month
  \/ c.format.day # None /\ today.day # c.version.day

\* C8: Calendar on a CalVer record whose stored date components all equal
\* today's adds one to revision and changes nothing else, for every
\* configuration.
C8_SameDayAddsOne ==
  (After("CalVer", "Calendar") /\ SameDate(bumped.before.config.calver, bumped.today))
    => /\ bumped.res.ok
       /\ version = [bumped.before EXCEPT !.version_type.suffix = @ + 1]

\* C9: Calendar on a CalVer record with a declared date component that
\* differs from today's stores today's year/month/day and sets revision to
\* 0, whatever it was.
C9_NewDateResets ==
  (After("CalVer", "Calendar")
     /\ DeclaredDiffers(bumped.before.config.calver, bumped.today))
    => /\ bumped.res.ok
       /\ version.config.calver.version.year = bumped.today.year
       /\ version.config.calver.version.month = bumped.today.month
       /\ version.config.calver.version.day = bumped.today.day
       /\ version.version_type.suffix = 0

C9_Witness ==
  /\ After("CalVer", "Calendar")
  /\ bumped.before.version_type.suffix > 0
  /\ bumped.before.config.calver.format.day # None
  /\ bumped.today.year = bumped.before.config.calver.version.year
  /\ bumped.today.month = bumped.before.config.calver.version.month
  /\ bumped.today.day # bumped.before.config.calver.version.day

\* C10: k load-bump-save Calendar cycles on one day end with revision r + k
\* from a document stored at that day with revision r, and with revision
\* k - 1 and that day's date from a document stored at an earlier day.
C10_CyclesOnOneDay ==
  cycle.n > 0
    => LET c == doc.calver[1]
       IN  /\ SameDate(cycle.start, bumped.today)
             => c.conflict.suffix = cycle.start.conflict.suffix + cycle.n
           /\ DeclaredDiffers(cycle.start, bumped.today)
             => /\ c.conflict.suffix = cycle.n - 1
                /\ SameDate(c, bumped.today)

\* the stored month and day of a CalVer configuration are present exactly
\* when its format declares them
Mirrors(c) ==
  /\ (c.version.month # None) <=> (c.format.month # None)
  /\ (c.version.day # None) <=> (c.format.day # None)

\* C11: a Calendar bump decides "same period" by the declared components
\* only: when no declared component differs from today's (as on any day of
\* the stored year and month for a year+month format) it adds one to
\* revision and leaves the stored date, and an undeclared component never
\* makes the dates differ.
C11_DeclaredOnly ==
  (After("CalVer", "Calendar")
     /\ ~DeclaredDiffers(bumped.before.config.calver, bumped.today))
    => /\ bumped.res.ok
       /\ version.version_type.suffix = bumped.before.version_type.suffix + 1
       /\ version.config.calver.version = bumped.before.config.calver.version

\* C12: in every CalVer record reached by loading a document and applying
\* Calendar bumps the stored month is present iff the format declares a
\* month, and the stored day iff it declares a day.
C12_StoredMirrorsFormat ==
  (version.loaded /\ version.version_type.scheme = "CalVer")
    => Mirrors(version.config.calver)

\* the stored date of a CalVer configuration
StoredDate(c) == <<c.version.year, c.version.month, c.version.day>>

\* C13: to_file onto an existing document followed by from_file of it gives
\* the same scheme and the same major/minor/patch/candidate (SemVer) or the
\* same stored year/month/day, present or absent alike, and revision
\* (CalVer), whatever else the document held.
C13_RoundTrip ==
  (pc = "saved" /\ returned.op = "from_file")
    => /\ returned.res.ok
       /\ returned.res.v.version_type = version.version_type
       /\ version.version_type.scheme = "CalVer"
            => StoredDate(returned.res.v.config.calver)
                 = StoredDate(version.config.calver)

\* the string w occurs in the string s
Contains(s, w) ==
  \E i \in 1..(Len(s) - Len(w) + 1) : SubSeq(s, i, i + Len(w) - 1) = w

\* from_file has returned an error for the file at the path
LoadFailed == pc = "failed" /\ returned.op = "from_file"

\* C15: from_file returns an error and no record for a document with both a
\* semver and a calver section and for one with neither, and the two errors
\* carry different messages.
C15_SchemeSections ==
  /\ (doc \in SchemeErrorDocs /\ pc # "start")
       => LoadFailed /\ ~returned.res.ok /\ version = NoVersion
  /\ (doc \in SchemeErrorDocs /\ LoadFailed)
       => \A other \in SchemeErrorDocs \ {doc} :
            returned.res.msg # from_file(other, Days[now]).msg

C15_Witness ==
  /\ LoadFailed
  /\ doc \in SchemeErrorDocs
  /\ doc.semver # None
  /\ doc.calver # None

\* C16: from_file where no file exists returns a logic error whose message
\* says the configuration file was not found and points to 'bump init'; a
\* malformed document gives a parse or config error, never the same kind.
C16_MissingFile ==
  /\ (LoadFailed /\ doc = NoFile)
       => /\ returned.res.err = "LogicError"
          /\ Contains(returned.res.msg, "Configuration file not found")
          /\ Contains(returned.res.msg, "bump init")
  /\ (LoadFailed /\ doc = Malformed)
       => /\ returned.res.err \in {"ParseError", "TomlError"}
          /\ returned.res.err # from_file(NoFile, Days[now]).err

\* C14: in every state, after default construction, from_file, from_string
\* and any successful or failed bumps, the state variant and the
\* configuration variant of the record are of one scheme, and no bump
\* changes the scheme of a record.
C14_SchemesAgree ==
  /\ version.loaded => version.config.scheme = version.version_type.scheme
  /\ bumped.called
       => /\ version.version_type.scheme = bumped.before.version_type.scheme
          /\ version.config.scheme = bumped.before.config.scheme

C14_Witness ==
  /\ doc = NoFile
  /\ bumped.called
  /\ ~bumped.res.ok
  /\ version.prefix = ""

\* the candidate or the development policy of a SemVer configuration is not
\* one of the recognised values
UnknownCandidatePolicy(c) == c.candidate.promotion \notin {"major", "minor", "patch"}

UnknownDevelopmentPolicy(c) == c.development.promotion \notin {"git_sha", "branch", "full"}

\* major.minor.patch of a SemVer record
Triple(v) ==
  ToString(v.version_type.major) \o "." \o ToString(v.version_type.minor)
    \o "." \o ToString(v.version_type.patch)

\* the Display form of a SemVer record
DisplayForm(v) == v.prefix \o Triple(v)

\* the Candidate form of a SemVer record
CandidateForm(v) ==
  DisplayForm(v) \o v.config.semver.candidate.delimiter
    \o ToString(v.version_type.candidate)

\* the form a fully qualified string starts from
Form(v) == IF v.version_type.candidate > 0 THEN CandidateForm(v) ELSE DisplayForm(v)

\* fully_qualified_string has returned for a SemVer record inside a
\* repository
QualifiedInRepo ==
  /\ returned.op = "fully_qualified_string"
  /\ version.version_type.scheme = "SemVer"
  /\ returned.res.git.repo

\* C17: a SemVer document whose candidate.promotion or development.promotion
\* is not recognised loads without an error, and the record behaves as with
\* the defaults: Candidate from candidate == 0 promotes as minor, and the
\* development suffix is the short commit id.
C17_UnknownPolicies ==
  /\ (/\ doc \in RenderDocs
      /\ UnknownCandidatePolicy(doc.semver[1]) \/ UnknownDevelopmentPolicy(doc.semver[1])
      /\ pc # "start")
       => pc # "failed" /\ version.loaded
  /\ (/\ After("SemVer", "Candidate")
      /\ bumped.before.version_type.candidate = 0
      /\ UnknownCandidatePolicy(bumped.before.config.semver))
       => LET b == bumped.before.version_type
          IN  /\ bumped.res.ok
              /\ version.version_type = Numbers(b.major, b.minor + 1, 0, 1)
  /\ (/\ QualifiedInRepo
      /\ UnknownDevelopmentPolicy(version.config.semver)
      /\ ~returned.res.git.tagged
      /\ returned.res.git.sha.ok)
       => /\ returned.res.out.ok
          /\ returned.res.out.s =
               Form(version) \o version.config.semver.development.delimiter
                 \o returned.res.git.sha.s

C17_Witness ==
  /\ QualifiedInRepo
  /\ doc \in RenderDocs
  /\ UnknownDevelopmentPolicy(version.config.semver)
  /\ UnknownCandidatePolicy(version.config.semver)
  /\ ~returned.res.git.tagged
  /\ returned.res.git.sha.ok
  /\ returned.res.git.branch.ok
  /\ version.version_type.candidate = 1
  /\ version.version_type.minor = 1

\* C18: for a SemVer record to_string for Point, Release and SetPrefix is
\* prefix + major.minor.patch with nothing of the candidate, whatever its
\* value; for Candidate it ends with the candidate delimiter and the
\* candidate number; for Base it is major.minor.patch without the prefix.
C18_SemVerToString ==
  (returned.op = "to_string" /\ version.version_type.scheme = "SemVer")
    => LET kind == returned.res.bump_type.kind
       IN  /\ kind \in {"Point", "Release", "Prefix"}
                => returned.res.s = DisplayForm(version)
           /\ kind = "Candidate"
                => returned.res.s =
                     DisplayForm(version) \o version.config.semver.candidate.delimiter
                       \o ToString(version.version_type.candidate)
           /\ kind = "Base" => returned.res.s = Triple(version)

C18_Witness ==
  /\ returned.op = "to_string"
  /\ version.version_type.scheme = "SemVer"
  /\ returned.res.bump_type.kind = "Release"
  /\ version.version_type.candidate > 0
  /\ version.prefix = "rel"

\* the stored date components that the format declares
DeclaredParts(c) ==
  <<c.version.year>>
    \o (IF c.format.month # None THEN c.version.month ELSE <<>>)
    \o (IF c.format.day # None THEN c.version.day ELSE <<>>)

\* C19: to_string on a CalVer record is the prefix, the date components the
\* format declares (year, month, day) joined by the format delimiter, and
\* the conflict delimiter and revision exactly when revision > 0.
C19_CalVerToString ==
  (returned.op = "to_string" /\ version.version_type.scheme = "CalVer")
    => LET c == version.config.calver
           date == version.prefix \o Join(DeclaredParts(c), c.format.delimiter)
       IN  returned.res.s =
             IF version.version_type.suffix > 0
               THEN date \o c.conflict.delimiter \o ToString(version.version_type.suffix)
               ELSE date

\* the development suffix the policy of a SemVer configuration asks for,
\* when the queries it needs answer
PolicySuffix(c, git) ==
  CASE c.development.promotion = "git_sha" -> git.sha
    [] c.development.promotion = "branch" -> git.branch
    [] c.development.promotion = "full" ->
         IF git.sha.ok /\ git.branch.ok
           THEN [ok |-> TRUE, s |-> git.branch.s \o "_" \o git.sha.s]
           ELSE [ok |-> FALSE]
    [] OTHER -> git.sha

\* C20: for a SemVer record inside a repository fully_qualified_string is F
\* when the commit is tagged exactly and otherwise F + development delimiter
\* + suffix, F being the Candidate form if candidate > 0 and the Display form
\* if not, and the suffix the short commit id for git_sha, the branch for
\* branch, <branch>_<sha> for full and the short commit id for any other
\* policy (where the queries of the policy answer).
C20_FullyQualified ==
  QualifiedInRepo
    => LET git == returned.res.git
           c == version.config.semver
           suffix == PolicySuffix(c, git)
       IN  /\ git.tagged
                => returned.res.out = [ok |-> TRUE, s |-> Form(version)]
           /\ (~git.tagged /\ suffix.ok)
                => returned.res.out =
                     [ok |-> TRUE,
                      s |-> Form(version) \o c.development.delimiter \o suffix.s]

C20_Witness ==
  /\ QualifiedInRepo
  /\ ~returned.res.git.tagged
  /\ returned.res.git.sha.ok
  /\ returned.res.git.branch.ok
  /\ version.config.semver.development.promotion = "full"
  /\ version.version_type.candidate > 0

\* C21: outside a repository fully_qualified_string on a SemVer record never
\* returns an error: it returns the Candidate form if candidate > 0 and the
\* Display form otherwise, without a development suffix.
C21_OutsideRepository ==
  (/\ returned.op = "fully_qualified_string"
   /\ version.version_type.scheme = "SemVer"
   /\ ~returned.res.git.repo)
    => returned.res.out =
         [ok |-> TRUE,
          s |-> IF version.version_type.candidate > 0
                  THEN CandidateForm(version) ELSE DisplayForm(version)]

C21_Witness ==
  /\ returned.op = "fully_qualified_string"
  /\ version.version_type.scheme = "SemVer"
  /\ ~returned.res.git.repo
  /\ version.version_type.candidate > 0
  /\ version.config.semver.development.promotion = "full"

\* from_string has just returned a record for the string it was given
Parsed == returned.op = "from_string" /\ pc = "loaded" /\ bumped = NotBumped

\* C24: from_string on <letters><major>.<minor>.<patch>, with or without
\* -rc<candidate>, gives a SemVer record with that prefix, those three
\* numbers and that candidate, 0 without the -rc part; relx2.0.5-rc3 gives
\* relx, 2, 0, 5 and candidate 3.
C24_FromString ==
  \A w \in WrittenVersions :
    (returned.op = "from_string" /\ returned.res.version_str = Written(w))
      => /\ returned.res.out.ok
         /\ Parsed
              => /\ version.prefix = w.prefix
                 /\ version.version_type =
                      Numbers(w.major, w.minor, w.patch,
                              IF w.candidate = None THEN 0 ELSE w.candidate[1])
                 /\ version.config.scheme = "SemVer"

C24_Witness ==
  /\ Parsed
  /\ returned.res.version_str = "relx2.0.5-rc3"
  /\ version.prefix = "relx"
  /\ version.version_type = Numbers(2, 0, 5, 3)

\* C25: from_string on an input that lacks one of the numeric groups fails
\* with a parse error that names the field, MAJOR, MINOR, PATCH or
\* CANDIDATE, a different error for each.
C25_MissingGroup ==
  \A field \in DOMAIN Lacking :
    (returned.op = "from_string" /\ returned.res.version_str = Lacking[field])
      => /\ ~returned.res.out.ok
         /\ returned.res.out.err = "ParseError"
         /\ Contains(returned.res.out.msg, field)

\* s starts with w
StartsWith(s, w) == Len(s) >= Len(w) /\ SubSeq(s, 1, Len(w)) = w

\* C26: bump(SetPrefix(p)) on a SemVer record succeeds, sets the record's
\* prefix to p and leaves major, minor, patch and candidate as they were; no
\* other bump changes the prefix, and every Display or Candidate render of a
\* SemVer record starts with the record's prefix, so with p after
\* SetPrefix(p).
C26_SetPrefix ==
  /\ After("SemVer", "Prefix")
       => /\ bumped.res.ok
          /\ version.prefix = bumped.bump_type.prefix
          /\ version.version_type = bumped.before.version_type
  /\ (bumped.called /\ bumped.before.version_type.scheme = "SemVer"
        /\ bumped.bump_type.kind # "Prefix")
       => version.prefix = bumped.before.prefix
  /\ (returned.op = "to_string" /\ version.version_type.scheme = "SemVer"
        /\ returned.res.bump_type.kind \in {"Prefix", "Point", "Release", "Candidate"})
       => StartsWith(returned.res.s, version.prefix)

C26_Witness ==
  /\ returned.op = "to_string"
  /\ version.version_type.scheme = "SemVer"
  /\ version.prefix = "rel"
  /\ version.config.semver.format.prefix # "rel"
  /\ returned.res.bump_type.kind = "Candidate"
  /\ StartsWith(returned.res.s, "rel")

\* C27: after a successful SemVer bump (SetPrefix, Point, Candidate or
\* Release) the record's timestamp is the current time rendered with the
\* configured timestamp pattern when one is configured, and absent when none
\* is; after a CalVer bump the record has no timestamp.
C27_Timestamp ==
  /\ (/\ \E kind \in {"Prefix", "Point", "Candidate", "Release"} :
           After("SemVer", kind)
      /\ bumped.res.ok)
       => LET format == bumped.before.config.semver.format.timestamp
          IN  version.timestamp =
                IF format = None THEN None
                ELSE Some(StrfTime(format[1], Days[now]))
  /\ (bumped.called /\ bumped.before.version_type.scheme = "CalVer")
       => version.timestamp = None

C27_Witness ==
  /\ After("SemVer", "Point")
  /\ bumped.res.ok
  /\ bumped.before.config.semver.format.timestamp # None
  /\ bumped.before.timestamp = Some("built 2024")
  /\ version.timestamp = Some("built 2025")

\* a successful SemVer bump of a record without a timestamp pattern
C27_WitnessAbsent ==
  /\ After("SemVer", "Candidate")
  /\ bumped.res.ok
  /\ bumped.before.config.semver.format.timestamp = None
  /\ version.timestamp = None

\* C28: bump with the Base kind changes no field of the record, the rendered
\* timestamp included, whether the record is SemVer or CalVer.
C28_BaseChangesNothing ==
  (bumped.called /\ bumped.bump_type.kind = "Base")
    => version = bumped.before

\* bump with the Base kind on a CalVer record changes no field
C28_CalVerBase ==
  (After("CalVer", "Base")) => version = bumped.before

C28_CalVerBaseWitness == After("CalVer", "Base")

\* C30: after a successful SetPrefix(p) bump of a SemVer record and a save,
\* loading the document gives a record whose prefix is p.
C30_PrefixPersisted ==
  \A bump_type \in BumpTypes :
    (/\ bump_type.kind = "Prefix"
     /\ pc = "saved"
     /\ returned.op = "from_file"
     /\ version.version_type.scheme = "SemVer"
     /\ version.prefix = bump_type.prefix)
      => /\ returned.res.ok
         /\ returned.res.v.prefix = bump_type.prefix

\* the CalVer display string: the stored date components joined by the
\* format delimiter after the prefix, then the conflict delimiter and the
\* revision when it is above 0
CalVerDisplay(v) ==
  LET c == v.config.calver
  IN  v.prefix
        \o Join(<<c.version.year>> \o c.version.month \o c.version.day,
                c.format.delimiter)
        \o (IF v.version_type.suffix > 0
              THEN c.conflict.delimiter \o ToString(v.version_type.suffix)
              ELSE "")

\* the tag name of a record
RecordTagName(v) ==
  IF v.version_type.scheme = "SemVer" THEN Form(v) ELSE CalVerDisplay(v)

\* tag_version has loaded the record and create_git_tag has built a name
Tagged == returned.op = "tag_version" /\ returned.res.tag_name # None

\* C22: the tag name used for tag creation is, for a SemVer record, its
\* Display form, or its Candidate form when candidate > 0, and for a CalVer
\* record its CalVer display string, built from the stored date components,
\* the delimiters and the revision.
C22_TagName ==
  Tagged => returned.res.tag_name[1] = RecordTagName(version)

\* the tag name of a SemVer record is its Display or Candidate form
C22_SemVerTagName ==
  (Tagged /\ version.version_type.scheme = "SemVer")
    => returned.res.tag_name[1] = Form(version)

C22_SemVerWitness ==
  /\ Tagged
  /\ version.version_type.scheme = "SemVer"
  /\ version.version_type.candidate > 0
  /\ returned.res.out.ok

\* C23: tag creation fails with a source-control error and creates nothing
\* when a tag with the record's tag name already exists, and fails with an
\* error, creating nothing, when not in a repository; so of the calls that
\* tag the same record with no bump in between at most one succeeds.
C23_TagOnce ==
  (returned.op = "tag_version" /\ version # NoVersion)
    => /\ (returned.res.repo /\ RecordTagName(version) \in returned.res.before)
            => /\ ~returned.res.out.ok
               /\ returned.res.out.err = "Git"
               /\ tags = returned.res.before
       /\ ~returned.res.repo
            => /\ ~returned.res.out.ok
               /\ tags = returned.res.before
       /\ returned.res.earlier => ~returned.res.out.ok

\* the same for the SemVer records alone
C23_SemVerTagOnce ==
  (returned.op = "tag_version" /\ version # NoVersion
     /\ version.version_type.scheme = "SemVer")
    => /\ (returned.res.repo /\ Form(version) \in returned.res.before)
            => /\ ~returned.res.out.ok
               /\ returned.res.out.err = "Git"
               /\ tags = returned.res.before
       /\ ~returned.res.repo
            => /\ ~returned.res.out.ok
               /\ tags = returned.res.before
       /\ returned.res.earlier => ~returned.res.out.ok

C23_SemVerWitness ==
  /\ returned.op = "tag_version"
  /\ version # NoVersion
  /\ version.version_type.scheme = "SemVer"
  /\ returned.res.repo
  /\ returned.res.earlier
  /\ Form(version) \in returned.res.before
  /\ returned.res.out.err = "Git"

\* C29: a SemVer document written by file_init for a record loads back
\* through from_file with that record's major, minor, patch and candidate;
\* the default record loads back as 0.1.0 with candidate 0.
C29_InitRoundTrip ==
  (/\ pc = "initialized"
   /\ returned.op = "from_file"
   /\ version.version_type.scheme = "SemVer")
    => /\ returned.res.ok
       /\ returned.res.v.version_type = version.version_type

\* the document file_init wrote loads, as a record of the same scheme
C29_InitLoads ==
  (pc = "initialized" /\ returned.op = "from_file")
    => /\ returned.res.ok
       /\ returned.res.v.version_type.scheme = version.version_type.scheme

C29_InitLoadsWitness ==
  /\ pc = "initialized"
  /\ returned.op = "from_file"
  /\ version.version_type = Numbers(0, 1, 0, 0)
  /\ returned.res.ok

\* apply has returned
Applied == returned.op = "apply"

\* C31: apply leaves the persisted document as it was whenever it rejects
\* the request: it rejects a command line without a bump kind, it rejects
\* Point, Candidate and Release on a CalVer document, and it rejects when
\* bump returns an error; in each case, and on every other error, the
\* document is unchanged.
C31_RejectedNotWritten ==
  Applied
    => LET l == from_file(returned.res.before, Days[now])
           a == returned.res.matches
       IN  /\ ~returned.res.out.ok => doc = returned.res.before
           /\ (l.ok /\ a = {}) => ~returned.res.out.ok
           /\ (l.ok /\ l.v.version_type.scheme = "CalVer"
                 /\ "prefix" \notin a /\ a # {})
                => ~returned.res.out.ok
           /\ (l.ok /\ l.v.version_type.scheme = "SemVer" /\ a = {"release"}
                 /\ l.v.version_type.candidate = 0)
                => ~returned.res.out.ok

C31_Witness ==
  /\ Applied
  /\ returned.res.matches = {"release"}
  /\ version # NoVersion
  /\ version.version_type.scheme = "SemVer"
  /\ version.version_type.candidate = 0
  /\ ~returned.res.out.ok
  /\ doc = returned.res.before

\* the queries the development policy of c needs, in the order they are made
RequiredQueries(c, git) ==
  CASE c.development.promotion = "branch" -> <<git.branch>>
    [] c.development.promotion = "full" -> <<git.branch, git.sha>>
    [] OTHER -> <<git.sha>>

\* C32: in a repository whose current commit is not exactly tagged, when the
\* commit-id or branch query the development policy needs fails,
\* fully_qualified_string on a SemVer record returns the error of the first
\* query that failed, a source-control error, and no version string.
C32_QueryFailure ==
  QualifiedInRepo
    => LET git == returned.res.git
           q == RequiredQueries(version.config.semver, git)
           failed == { i \in DOMAIN q : ~q[i].ok }
       IN  (~git.tagged /\ failed # {})
             => /\ ~returned.res.out.ok
                /\ returned.res.out.err = "Git"
                /\ \E i \in failed :
                     /\ \A j \in failed : i <= j
                     /\ returned.res.out = q[i]

C32_Witness ==
  /\ QualifiedInRepo
  /\ ~returned.res.git.tagged
  /\ version.config.semver.development.promotion = "full"
  /\ returned.res.git.branch.ok
  /\ ~returned.res.git.sha.ok
  /\ returned.res.out = returned.res.git.sha

\* major, minor and patch of v separated by the delimiter of its format
\* section
Delimited(v) ==
  ToString(v.version_type.major) \o v.config.semver.format.delimiter
    \o ToString(v.version_type.minor) \o v.config.semver.format.delimiter
    \o ToString(v.version_type.patch)

\* C33: every SemVer render, Display, Candidate, Base, tag name and
\* fully-qualified, separates major, minor and patch with the delimiter
\* configured in the record's format section.
C33_ConfiguredDelimiter ==
  /\ (returned.op = "to_string" /\ version.version_type.scheme = "SemVer")
       => returned.res.s =
            CASE returned.res.bump_type.kind = "Base" -> Delimited(version)
              [] returned.res.bump_type.kind = "Candidate" ->
                   version.prefix \o Delimited(version)
                     \o version.config.semver.candidate.delimiter
                     \o ToString(version.version_type.candidate)
              [] OTHER -> version.prefix \o Delimited(version)
  /\ (Tagged /\ version.version_type.scheme = "SemVer")
       => StartsWith(returned.res.tag_name[1], version.prefix \o Delimited(version))
  /\ (returned.op = "fully_qualified_string"
        /\ version.version_type.scheme = "SemVer" /\ returned.res.out.ok)
       => StartsWith(returned.res.out.s, version.prefix \o Delimited(version))

\* with the delimiter "." every SemVer render is as C33 says
C33_DotDelimiter ==
  (version # NoVersion /\ version.version_type.scheme = "SemVer"
     /\ version.config.semver.format.delimiter = ".")
    => C33_ConfiguredDelimiter

\* what C34 says a counter is after a date-changing Calendar bump
NextCounter(enabled, counter) ==
  IF enabled = Some(TRUE)
    THEN IF counter = None THEN Some(0) ELSE Some(counter[1] + 1)
    ELSE None

\* C34: after a Calendar bump that changes the stored date the stored minor
\* (micro) counter is present iff the format sets minor (micro) to true, a
\* false setting being as an absent one; when present it is the previous
\* value + 1, or 0 if there was none; a Calendar bump that keeps the date
\* leaves both counters as they were.
C34_Counters ==
  (After("CalVer", "Calendar") /\ bumped.res.ok)
    => LET b == bumped.before.config.calver
           a == version.config.calver
       IN  IF StoredDate(a) # StoredDate(b)
             THEN /\ a.version.minor = NextCounter(b.format.minor, b.version.minor)
                  /\ a.version.micro = NextCounter(b.format.micro, b.version.micro)
             ELSE /\ a.version.minor = b.version.minor
                  /\ a.version.micro = b.version.micro

C34_Witness ==
  /\ After("CalVer", "Calendar")
  /\ bumped.res.ok
  /\ StoredDate(version.config.calver) # StoredDate(bumped.before.config.calver)
  /\ bumped.before.config.calver.format.minor = Some(TRUE)
  /\ bumped.before.config.calver.version.minor = Some(0)
  /\ version.config.calver.version.minor = Some(1)
  /\ bumped.before.config.calver.format.micro = Some(FALSE)
  /\ bumped.before.config.calver.version.micro = Some(1)
  /\ version.config.calver.version.micro = None

\* (major, minor, patch) of a is before that of b in lexicographic order
LexLess(a, b) ==
  \/ a.major < b.major
  \/ a.major = b.major /\ a.minor < b.minor
  \/ a.major = b.major /\ a.minor = b.minor /\ a.patch < b.patch

\* (major, minor, patch) of a and of b are the same
SameTriple(a, b) ==
  a.major = b.major /\ a.minor = b.minor /\ a.patch = b.patch

\* C35: a successful bump of a SemVer record never takes (major, minor,
\* patch) back in lexicographic order: a Point bump and a Candidate bump at
\* candidate 0 take it strictly forward, and a Candidate bump at candidate
\* > 0, Release and SetPrefix leave it as it is; so it never decreases along
\* a sequence of successful bumps.
C35_TripleMonotonic ==
  (bumped.called /\ bumped.before.version_type.scheme = "SemVer" /\ bumped.res.ok)
    => LET b == bumped.before.version_type
           a == version.version_type
           kind == bumped.bump_type.kind
       IN  /\ LexLess(b, a) \/ SameTriple(b, a)
           /\ (kind = "Point" \/ (kind = "Candidate" /\ b.candidate = 0))
                => LexLess(b, a)
           /\ (kind \in {"Release", "Prefix"} \/ (kind = "Candidate" /\ b.candidate > 0))
                => SameTriple(b, a)

C35_Witness ==
  /\ After("SemVer", "Candidate")
  /\ bumped.res.ok
  /\ bumped.before.version_type.candidate > 0
  /\ bumped.before.version_type.patch > 0
  /\ SameTriple(bumped.before.version_type, version.version_type)

\* a Candidate bump at candidate 0 under the major policy takes the triple
\* forward although minor and patch go back to 0
C35_WitnessPromoted ==
  /\ After("SemVer", "Candidate")
  /\ bumped.res.ok
  /\ bumped.before.version_type = Numbers(0, 1, 1, 0)
  /\ version.version_type = Numbers(1, 0, 0, 1)

\* C36: along a sequence of successful Point, Candidate and Release bumps
\* from any SemVer record no (major, minor, patch, candidate) is visited
\* twice: whichever state of the sequence is remembered, no later state of
\* the sequence is that state, and, the prefix being the same, no later tag
\* name is its tag name.
C36_NoStateTwice ==
  (trail.marked /\ trail.moved)
    => /\ version.version_type # trail.vt[1]
       /\ tag_name(version, Days[now]) # trail.name[1]

C36_Witness ==
  /\ trail.marked
  /\ trail.moved
  /\ trail.vt[1] = Numbers(0, 0, 1, 1)
  /\ version.version_type = Numbers(1, 0, 0, 0)
  /\ After("SemVer", "Point")
  /\ bumped.res.ok

\* C37: on a SemVer record Release succeeds iff candidate > 0; so between
\* two successful Release bumps there is a successful Candidate bump, and a
\* Release right after a successful Release or Point bump fails.
C37_ReleaseNeedsCandidate ==
  After("SemVer", "Release")
    => /\ bumped.res.ok <=> bumped.before.version_type.candidate > 0
       /\ (~trail.marked /\ bumped.res.ok /\ trail.released) => trail.between
       /\ (~trail.marked /\ trail.prev \in {"Release", "Point"}) => ~bumped.res.ok

C37_Witness ==
  /\ After("SemVer", "Release")
  /\ bumped.res.ok
  /\ ~trail.marked
  /\ trail.released
  /\ trail.between
  /\ trail.prev = "Candidate"

\* a Release right after a successful Release, which fails
C37_WitnessAfterRelease ==
  /\ After("SemVer", "Release")
  /\ ~trail.marked
  /\ trail.prev = "Release"
  /\ ~bumped.res.ok

\* the stored date of a CalVer record and its revision
DateAndRevision(v) == <<StoredDate(v.config.calver), v.version_type.suffix>>

\* a successful Calendar bump of a record that an earlier successful
\* Calendar bump produced and saved
LaterCalendarBump ==
  /\ cycle.n >= 2
  /\ After("CalVer", "Calendar")
  /\ bumped.res.ok

\* C38: the clock never going back, successive successful Calendar bumps of
\* a CalVer record never give the same (stored date, revision) twice: a bump
\* of the record an earlier bump produced gives another pair and another
\* display string than that bump did.
C38_NoVersionTwice ==
  LaterCalendarBump
    => /\ DateAndRevision(version) # DateAndRevision(bumped.before)
       /\ to_string(version, bumped.bump_type)
            # to_string(bumped.before, bumped.bump_type)

\* the same for the documents whose conflict resolution is not "overwrite"
C38_SuffixResolution ==
  (LaterCalendarBump
     /\ bumped.before.config.calver.conflict.resolution # "overwrite")
    => /\ DateAndRevision(version) # DateAndRevision(bumped.before)
       /\ to_string(version, bumped.bump_type)
            # to_string(bumped.before, bumped.bump_type)

C38_SuffixResolutionWitness ==
  /\ LaterCalendarBump
  /\ bumped.before.config.calver.conflict.resolution = "suffix"
  /\ StoredDate(version.config.calver) = StoredDate(bumped.before.config.calver)
  /\ version.version_type.suffix = bumped.before.version_type.suffix + 1

\* C39: for every SemVer record the name used for tag creation, the string
\* printed by print without the base option, and the result of
\* fully_qualified_string when the current commit is exactly tagged or the
\* directory is not a repository are one string: the Candidate form iff
\* candidate > 0, else the Display form.
C39_OneString ==
  (returned.op = "print" /\ ~returned.res.base
     /\ version.version_type.scheme = "SemVer")
    => /\ returned.res.s = Form(version)
       /\ tag_name(version, Days[now]) = returned.res.s
       /\ \A git \in Repositories :
            (~git.repo \/ git.tagged)
              => fully_qualified_string(version, git)
                   = [ok |-> TRUE, s |-> returned.res.s]

C39_Witness ==
  /\ returned.op = "print"
  /\ ~returned.res.base
  /\ version.version_type.scheme = "SemVer"
  /\ version.version_type.candidate > 0
  /\ version.prefix = "rel"
  /\ returned.res.s = CandidateForm(version)

====
